---------------------------- MODULE Spec2Model ----------------------------
(***************************************************************************)
(* A model of the TEG system thermal-hydraulic solver (run_model, in       *)
(* modeling/coolprop/teg_system_model.py) and of the sizing search         *)
(* (mcf_for_target, in modeling/coolprop/mcf_to_watts.py), and of the     *)
(* system cost roll-up (calculate_system_cost, in costs/cost_model.py).    *)
(*                                                                         *)
(* Python floats are modelled as decimal floating-point numbers <<m, e>>   *)
(* (value m * 10^e) with an 8-digit mantissa and rounding to nearest: like *)
(* binary64 every operation rounds its result, so an identity that holds   *)
(* only in exact arithmetic is not assumed.                                *)
(***************************************************************************)
EXTENDS Integers, Sequences, FiniteSets, TLC

----------------------------------------------------------------------------
(* Floating-point arithmetic *)

MantLo == 10 ^ 7
MantHi == 10 ^ 8

Abs(x) == IF x < 0 THEN -x ELSE x

\* m / d rounded to the nearest integer, halves away from zero (d > 0)
RDiv(m, d) == IF m >= 0 THEN (m + d \div 2) \div d ELSE -((-m + d \div 2) \div d)

RECURSIVE Norm(_, _)
\* the float m * 10^e with its mantissa brought to 8 digits
Norm(m, e) ==
    IF m = 0 THEN <<0, 0>>
    ELSE IF Abs(m) >= MantHi THEN Norm(RDiv(m, 10), e + 1)
    ELSE IF Abs(m) >= MantLo THEN <<m, e>>
    ELSE Norm(m * 10, e - 1)

\* the literal m * 10^e, e.g. 3.66 is Lit(366, -2)
Lit(m, e) == Norm(m, e)

FromInt(n) == Norm(n, 0)

Zero == <<0, 0>>
One == Lit(1, 0)
Half == Lit(5, -1)
Two == Lit(2, 0)

FNeg(a) == <<-a[1], a[2]>>

FAbs(a) == <<Abs(a[1]), a[2]>>

\* a + b, computed with one guard digit and rounded
FAdd(a, b) ==
    IF a[1] = 0 THEN b
    ELSE IF b[1] = 0 THEN a
    ELSE LET big == IF a[2] >= b[2] THEN a ELSE b
             small == IF a[2] >= b[2] THEN b ELSE a
             d == big[2] - small[2]
         IN IF d > 9 THEN big
            ELSE LET ms == IF d = 0 THEN small[1] * 10
                           ELSE RDiv(small[1], 10 ^ (d - 1))
                 IN Norm(big[1] * 10 + ms, big[2] - 1)

FSub(a, b) == FAdd(a, FNeg(b))

SameSign(a, b) == (a[1] > 0) = (b[1] > 0)

\* a * b: the 16-digit product of the mantissas cut to 9 digits, then rounded
FMul(a, b) ==
    IF a[1] = 0 \/ b[1] = 0 THEN Zero
    ELSE LET x == Abs(a[1])
             y == Abs(b[1])
             ah == x \div 10000
             al == x % 10000
             bh == y \div 10000
             bl == y % 10000
             q == ah * bh * 10 + (ah * bl + al * bh + (al * bl) \div 10000) \div 1000
         IN Norm(IF SameSign(a, b) THEN q ELSE -q, a[2] + b[2] + 7)

RECURSIVE LongDiv(_, _, _, _)
\* k more decimal digits of the quotient r / d (r < d), appended to q
LongDiv(r, d, k, q) ==
    IF k = 0 THEN q
    ELSE LongDiv((r * 10) % d, d, k - 1, q * 10 + (r * 10) \div d)

\* a / b (b # 0): nine digits of the quotient by long division, then rounded
FDiv(a, b) ==
    IF a[1] = 0 THEN Zero
    ELSE LET x == Abs(a[1])
             y == Abs(b[1])
             q == LongDiv(x % y, y, 8, x \div y)
         IN Norm(IF SameSign(a, b) THEN q ELSE -q, a[2] - b[2] - 8)

FLt(a, b) == FSub(a, b)[1] < 0
FLe(a, b) == FSub(a, b)[1] <= 0
FGt(a, b) == FLt(b, a)
FGe(a, b) == FLe(b, a)
IsZero(a) == a[1] = 0
IsPos(a) == a[1] > 0
IsNeg(a) == a[1] < 0

\* Python's max(a, b): b only when it is strictly greater
FMax(a, b) == IF FGt(b, a) THEN b ELSE a

FSq(a) == FMul(a, a)

RECURSIVE Newton(_, _, _)
Newton(x, y, k) ==
    IF k = 0 THEN y ELSE Newton(x, FMul(Half, FAdd(y, FDiv(x, y))), k - 1)

\* math.sqrt(x), x >= 0
FSqrt(x) ==
    IF x[1] = 0 THEN Zero
    ELSE LET E == x[2] + 7
         IN Newton(x, IF E % 2 = 0 THEN Lit(2, E \div 2) ELSE Lit(6, (E - 1) \div 2), 6)

\* y^10 = ((y^2)^2 * y)^2
Pow10th(y) == FSq(FMul(FSq(FSq(y)), y))

RECURSIVE LogDigits(_, _, _)
\* k more decimal digits of log10(y), 1 <= y < 10, appended to D: the next
\* digit is the decimal exponent of y^10, whose mantissa carries the rest
LogDigits(y, k, D) ==
    IF k = 0 THEN D
    ELSE LogDigits(<<Pow10th(y)[1], -7>>, k - 1, D * 10 + (Pow10th(y)[2] + 7))

\* math.log10(x), x > 0
FLog10(x) == Norm((x[2] + 7) * MantLo + LogDigits(<<x[1], -7>>, 7, 0), -7)

\* round(y * 10^s) as an integer
ToFixed(y, s) ==
    IF y[2] + s >= 0 THEN y[1] * 10 ^ (y[2] + s) ELSE RDiv(y[1], 10 ^ (-(y[2] + s)))

RECURSIVE IPow(_, _)
IPow(t, d) == IF d = 0 THEN One ELSE FMul(IPow(t, d - 1), t)

Ln10 == Lit(23025851, -7)
Log10E == Lit(43429448, -8)

\* 10^y for |y| < 21: the integer part shifts the exponent, the first four
\* decimals multiply the roots 10^0.1, 10^0.01, 10^0.001, 10^0.0001, and the
\* rest enters to first order
FExp10(y) ==
    LET Y == ToFixed(y, 8)
        k == Y \div MantHi
        f == Y % MantHi
        r0 == FAdd(One, FMul(Ln10, Lit(f % 10000, -8)))
        r1 == FMul(r0, IPow(Lit(12589254, -7), (f \div 10000000) % 10))
        r2 == FMul(r1, IPow(Lit(10232930, -7), (f \div 1000000) % 10))
        r3 == FMul(r2, IPow(Lit(10023052, -7), (f \div 100000) % 10))
        r4 == FMul(r3, IPow(Lit(10002303, -7), (f \div 10000) % 10))
    IN <<r4[1], r4[2] + k>>

\* x ** p for x > 0
FPow(x, p) == FExp10(FMul(p, FLog10(x)))

\* math.exp(x)
FExp(x) == FExp10(FMul(x, Log10E))

\* math.pi
Pi == Lit(31415927, -7)

----------------------------------------------------------------------------
(* TEG data *)

\* an electrical_output whose efficiency is guarded by q_teg != 0 only
electrical_output_NonZeroGuard(teg, dt_c) ==
    LET v_oc == FMul(teg.seebeck_v_per_k, dt_c)
        v_mpp == FDiv(v_oc, Two)
        i_mpp == FDiv(v_oc, FMul(Two, teg.internal_r_ohm))
        p_mpp == FMul(v_mpp, i_mpp)
        q_teg == IF IsPos(teg.r_thermal) THEN FDiv(dt_c, teg.r_thermal) ELSE Zero
        eff == IF ~IsZero(q_teg) THEN FDiv(p_mpp, q_teg) ELSE Zero
    IN [power_w |-> p_mpp, voltage_v |-> v_mpp, current_a |-> i_mpp,
        heat_flux_w |-> q_teg, efficiency |-> eff]

\* TEGSpec.electrical_output(dt_c)
electrical_output(teg, dt_c) ==
    LET v_oc == FMul(teg.seebeck_v_per_k, dt_c)
        v_mpp == FDiv(v_oc, Two)
        i_mpp == FDiv(v_oc, FMul(Two, teg.internal_r_ohm))
        p_mpp == FMul(v_mpp, i_mpp)
        q_teg == IF IsPos(teg.r_thermal) THEN FDiv(dt_c, teg.r_thermal) ELSE Zero
        eff == IF IsPos(q_teg) THEN FDiv(p_mpp, q_teg) ELSE Zero
    IN [power_w |-> p_mpp, voltage_v |-> v_mpp, current_a |-> i_mpp,
        heat_flux_w |-> q_teg, efficiency |-> eff]

MARLOW_TG1_1008 ==
    [name |-> "Marlow TG1-1008 (BiTe)", width_m |-> Lit(40, -3), height_m |-> Lit(40, -3),
     r_thermal |-> Lit(152, -2), max_hot_c |-> Lit(200, 0),
     seebeck_v_per_k |-> Lit(33, -3), internal_r_ohm |-> Lit(15, -1),
     price_usd |-> Lit(25, 0), life_years |-> Lit(20, 0)]

THERMONAMIC_PB12611 ==
    [name |-> "Thermonamic TEG1-PB-12611 (PbTe hybrid)", width_m |-> Lit(56, -3),
     height_m |-> Lit(56, -3), r_thermal |-> Lit(95, -2), max_hot_c |-> Lit(360, 0),
     seebeck_v_per_k |-> Lit(29, -3), internal_r_ohm |-> Lit(97, -2),
     price_usd |-> Lit(50, 0), life_years |-> Lit(8, 0)]

ALPHABET_PB_ENHANCED ==
    [name |-> "Alphabet PowerCard Pb-enhanced (est.)", width_m |-> Lit(40, -3),
     height_m |-> Lit(40, -3), r_thermal |-> Lit(110, -2), max_hot_c |-> Lit(400, 0),
     seebeck_v_per_k |-> Lit(35, -3), internal_r_ohm |-> Lit(12, -1),
     price_usd |-> Lit(65, 0), life_years |-> Lit(10, 0)]

TEG_CATALOG ==
    [marlow |-> MARLOW_TG1_1008, thermonamic |-> THERMONAMIC_PB12611,
     alphabet |-> ALPHABET_PB_ENHANCED]

----------------------------------------------------------------------------
(* HX geometry *)

\* HXGeometry(): the dataclass defaults
HXGeometry ==
    [n_channels |-> 9, channel_width_m |-> Lit(3, -3), channel_height_m |-> Lit(40, -3),
     channel_length_m |-> Lit(40, -3), fin_thickness_m |-> Lit(1, -3),
     fin_conductivity |-> Lit(385, 0), n_fins |-> 10, manifold_id_m |-> Lit(38, -3),
     hot_tim_k |-> Lit(75, -1), hot_tim_thickness_m |-> Lit(375, -6),
     cold_tim_k |-> Lit(45, -1), cold_tim_thickness_m |-> Lit(5, -4)]

channel_area(hx) == FMul(hx.channel_width_m, hx.channel_height_m)

hydraulic_diameter(hx) ==
    LET a == FMul(hx.channel_width_m, hx.channel_height_m)
        p == FMul(Two, FAdd(hx.channel_width_m, hx.channel_height_m))
    IN FDiv(FMul(Lit(4, 0), a), p)

total_flow_area(hx) == FMul(FromInt(hx.n_channels), channel_area(hx))

teg_contact_area(hx) ==
    FMul(hx.channel_length_m,
         FAdd(FMul(FromInt(hx.n_channels), hx.channel_width_m),
              FMul(FromInt(hx.n_fins), hx.fin_thickness_m)))

wetted_area_per_channel(hx) ==
    FMul(FMul(Two, FAdd(hx.channel_width_m, hx.channel_height_m)), hx.channel_length_m)

----------------------------------------------------------------------------
(* Fluid property helpers *)

\* What `import CoolProp.CoolProp as CP` left in CP, and how its lookups
\* behave: "none" (ImportError, CP = None), "failing" (every PropsSI call
\* raises), "working" (PropsSI answers inside the fluid's temperature range
\* and raises outside it).
BackendStates == {"none", "failing", "working"}

\* The range of INCOMP::MEG[0.5] in which a working backend answers (C)
PropsSIInRange(temp_c) == FGe(temp_c, Lit(1, 0)) /\ FLe(temp_c, Lit(100, 0))

\* CP.PropsSI(key, "T", t_k, "P", pressure_pa, "INCOMP::MEG[0.5]") of a working
\* backend: the library is not part of the repository, so these are stand-in
\* correlations in the temperature t_k (K)
PropsSI(key, t_k) ==
    LET t == FSub(t_k, Lit(27315, -2))
    IN CASE key = "D" -> FSub(Lit(1082, 0), FMul(Lit(6, -1), t))
         [] key = "C" -> FAdd(Lit(3250, 0), FMul(Lit(4, 0), t))
         [] key = "V" -> FDiv(Lit(8, -2), t)
         [] key = "L" -> FAdd(Lit(36, -2), FMul(Lit(5, -4), t))

\* a fallback whose viscosity was revised while its Prandtl literal was kept
GlycolFallback_Mu1000 ==
    [rho |-> Lit(1040, 0), cp |-> Lit(3400, 0), mu |-> Lit(1, -3), k |-> Lit(40, -2),
     pr |-> Lit(68, -1), name |-> "Water/Glycol 50/50 (fallback)"]

\* a fallback with the specific heat of a weaker glycol mix
GlycolFallback_Cp3500 ==
    [rho |-> Lit(1040, 0), cp |-> Lit(3500, 0), mu |-> Lit(8, -4), k |-> Lit(40, -2),
     pr |-> Lit(68, -1), name |-> "Water/Glycol 50/50 (fallback)"]

\* the hardcoded fallback of water_glycol_props
GlycolFallback ==
    [rho |-> Lit(1040, 0), cp |-> Lit(3400, 0), mu |-> Lit(8, -4), k |-> Lit(40, -2),
     pr |-> Lit(68, -1), name |-> "Water/Glycol 50/50 (fallback)"]

\* the try block of water_glycol_props raises (and the except clause catches)
GlycolLookupRaises(backend, temp_c) ==
    \/ backend = "failing"
    \/ backend = "working" /\ ~PropsSIInRange(temp_c)

water_glycol_props(backend, temp_c) ==
    IF backend # "none" /\ ~GlycolLookupRaises(backend, temp_c)
    THEN LET t_k == FAdd(temp_c, Lit(27315, -2))
             rho == PropsSI("D", t_k)
             cp == PropsSI("C", t_k)
             mu == PropsSI("V", t_k)
             k == PropsSI("L", t_k)
             pr == FDiv(FMul(cp, mu), k)
         IN [rho |-> rho, cp |-> cp, mu |-> mu, k |-> k, pr |-> pr,
             name |-> "Water/Glycol 50/50"]
    ELSE GlycolFallback

\* `return {...}` of thermal_oil_props: pr = cp * mu / k
OilProps(rho, cp, mu, k) ==
    [rho |-> rho, cp |-> cp, mu |-> mu, k |-> k, pr |-> FDiv(FMul(cp, mu), k),
     name |-> "Therminol VP-1 (polynomial fit)"]

thermal_oil_props(temp_c) ==
    OilProps(FSub(Lit(1078, 0), FMul(Lit(85, -2), temp_c)),
             FAdd(Lit(1510, 0), FMul(Lit(25, -1), temp_c)),
             FMax(IF FGt(temp_c, Lit(20, 0))
                  THEN FMul(Lit(1, -3), FExp(FSub(Lit(525, -2), FMul(Lit(2, -2), temp_c))))
                  ELSE Lit(4, -3),
                  Lit(2, -4)),
             FMax(FSub(Lit(137, -3), FMul(Lit(5, -5), temp_c)), Lit(8, -2)))

GlycolNames == {"water_glycol", "glycol", "water"}
OilNames == {"therminol", "thermal_oil", "vp1"}

\* a call's outcome: the value returned, or the exception raised
Returns(v) == [raised |-> "none", value |-> v]
Throws(exc) == [raised |-> exc, value |-> <<>>]

\* the final else branch treating every other identifier as thermal oil
get_fluid_props_ElseOil(backend, fluid_type, temp_c) ==
    IF fluid_type \in GlycolNames THEN Returns(water_glycol_props(backend, temp_c))
    ELSE Returns(thermal_oil_props(temp_c))

\* get_fluid_props(fluid_type, temp_c): the property set of the fluid's family,
\* or ValueError("Unknown fluid type: ...")
get_fluid_props(backend, fluid_type, temp_c) ==
    IF fluid_type \in GlycolNames THEN Returns(water_glycol_props(backend, temp_c))
    ELSE IF fluid_type \in OilNames THEN Returns(thermal_oil_props(temp_c))
    ELSE Throws("ValueError")

----------------------------------------------------------------------------
(* Convection and pressure-drop correlations *)

NuLaminar == Lit(366, -2)

\* 0.023 * re**0.8 * pr**n
NuTurbulent(re, pr, n) == FMul(FMul(Lit(23, -3), FPow(re, Lit(8, -1))), FPow(pr, n))

\* the two exponents exchanged
NuExponent_Swapped(heating) == IF heating THEN Lit(3, -1) ELSE Lit(4, -1)

\* n = 0.4 if heating else 0.3
NuExponent(heating) == IF heating THEN Lit(4, -1) ELSE Lit(3, -1)

\* a transitional branch whose fraction is measured from Re = 0
NuTransitional_FromZero(re, pr, n) ==
    FAdd(NuLaminar,
         FMul(FDiv(re, Lit(6000, 0)), FSub(NuTurbulent(re, pr, n), NuLaminar)))

\* a transitional branch interpolating towards the fixed value at Re = 6000
NuTransitional_FixedEnd(re, pr, n) ==
    FAdd(NuLaminar,
         FMul(FDiv(FSub(re, Lit(2300, 0)), FromInt(6000 - 2300)),
              FSub(NuTurbulent(Lit(6000, 0), pr, n), NuLaminar)))

\* the transitional branch: nu_lam + frac * (nu_turb - nu_lam), with nu_turb
\* the turbulent correlation at the re passed
NuTransitional(re, pr, n) ==
    FAdd(NuLaminar,
         FMul(FDiv(FSub(re, Lit(2300, 0)), FromInt(6000 - 2300)),
              FSub(NuTurbulent(re, pr, n), NuLaminar)))

nusselt_dittus_boelter(re, pr, heating) ==
    IF FLt(re, Lit(2300, 0)) THEN NuLaminar
    ELSE IF FLt(re, Lit(6000, 0)) THEN NuTransitional(re, pr, NuExponent(heating))
    ELSE NuTurbulent(re, pr, NuExponent(heating))

\* one pass of the Colebrook-White loop body: f_new from f
ColebrookNext(re, eps_d, f) ==
    FDiv(One, FSq(FMul(Lit(-2, 0),
                       FLog10(FAdd(FDiv(eps_d, Lit(37, -1)),
                                   FDiv(Lit(251, -2), FMul(re, FSqrt(f))))))))

\* a stopping test a hundred thousand times coarser
ColebrookConverged_Coarse(f, f_new) == FLt(FAbs(FSub(f_new, f)), Lit(1, -3))

\* abs(f_new - f) < 1e-8
ColebrookConverged(f, f_new) == FLt(FAbs(FSub(f_new, f)), Lit(1, -8))

RECURSIVE ColebrookLoop(_, _, _, _)
\* the body of one pass, f_new computed: break (returning f) once the step is
\* below 1e-8, else f = f_new and k - 1 passes are left
ColebrookPass(re, eps_d, f, f_new, k) ==
    IF ColebrookConverged(f, f_new) THEN f
    ELSE ColebrookLoop(re, eps_d, f_new, k - 1)

\* `for _ in range(20)` with k passes left; `return f`
ColebrookLoop(re, eps_d, f, k) ==
    IF k = 0 THEN f ELSE ColebrookPass(re, eps_d, f, ColebrookNext(re, eps_d, f), k)

ColebrookMaxIter == 20

\* f = 0.02
ColebrookSeed == Lit(2, -2)

\* a laminar branch whose guard only takes over below Re = 0.1
FrictionLaminar_FloorTenth(re) == FDiv(Lit(64, 0), FMax(re, Lit(1, -1)))

\* the laminar branch: 64.0 / max(re, 1.0)
FrictionLaminar(re) == FDiv(Lit(64, 0), FMax(re, One))

friction_factor(re, roughness_m, d_h) ==
    IF FLt(re, Lit(2300, 0)) THEN FrictionLaminar(re)
    ELSE ColebrookLoop(re, FDiv(roughness_m, d_h), ColebrookSeed, ColebrookMaxIter)

\* the default of friction_factor's roughness_m parameter
DefaultRoughness == Lit(1, -6)

----------------------------------------------------------------------------
(* Core model: run_model *)

\* SystemConfig(...) with the dataclass defaults for the fields not given
SystemConfig(teg_count, teg_spec, hot_fluid, cold_fluid, hot_inlet_c, cold_inlet_c, target_dt_fluid_c) ==
    [teg_count |-> teg_count, teg_spec |-> teg_spec, hx |-> HXGeometry,
     hot_fluid |-> hot_fluid, cold_fluid |-> cold_fluid,
     hot_inlet_c |-> hot_inlet_c, cold_inlet_c |-> cold_inlet_c,
     target_dt_fluid_c |-> target_dt_fluid_c,
     tegs_per_panel |-> 16, panels_per_tower |-> 5,
     pump_efficiency |-> Lit(65, -2),
     hot_pipe_length_m |-> Lit(30, 0), cold_pipe_length_m |-> Lit(30, 0),
     pipe_id_m |-> Lit(38, -3)]

\* ModelResults(): every field at its default
ModelResults ==
    [dt_across_teg_c |-> Zero, power_per_teg_w |-> Zero, heat_per_teg_w |-> Zero,
     teg_efficiency |-> Zero, teg_voltage_v |-> Zero, teg_current_a |-> Zero,
     total_teg_count |-> 0, gross_electrical_w |-> Zero, total_heat_input_w |-> Zero,
     total_heat_rejection_w |-> Zero,
     hot_fluid_name |-> "", hot_flow_rate_m3s |-> Zero, hot_flow_rate_gpm |-> Zero,
     hot_velocity_channel_ms |-> Zero, hot_reynolds |-> Zero, hot_nusselt |-> Zero,
     hot_h_conv |-> Zero,
     cold_fluid_name |-> "", cold_flow_rate_m3s |-> Zero, cold_flow_rate_gpm |-> Zero,
     hot_dp_channel_pa |-> Zero, hot_dp_manifold_pa |-> Zero, hot_dp_pipe_pa |-> Zero,
     hot_dp_total_pa |-> Zero, cold_dp_total_pa |-> Zero,
     pump_power_hot_w |-> Zero, pump_power_cold_w |-> Zero, pump_power_total_w |-> Zero,
     fan_power_w |-> Zero, electronics_w |-> Zero,
     net_electrical_w |-> Zero, net_electrical_kw |-> Zero, parasitic_fraction |-> Zero,
     r_hot_conv |-> Zero, r_hot_tim |-> Zero, r_teg |-> Zero, r_cold_tim |-> Zero,
     r_cold_conv |-> Zero, r_total |-> Zero,
     t_hot_fluid_avg_c |-> Zero, t_hot_fin_surface_c |-> Zero, t_teg_hot_c |-> Zero,
     t_teg_cold_c |-> Zero, t_cold_fin_surface_c |-> Zero, t_cold_fluid_avg_c |-> Zero]

\* run_model's local variables before any is bound
NoLocals ==
    [t_hot_avg |-> Zero, t_cold_avg |-> Zero, hot_props |-> GlycolFallback,
     cold_props |-> GlycolFallback, dt_total |-> Zero, dh |-> Zero, a_wetted |-> Zero,
     r_hot_tim |-> Zero, r_teg |-> Zero, r_cold_tim |-> Zero, r_total |-> Zero,
     q_per_teg |-> Zero, total_heat |-> Zero, hot_vol_flow |-> Zero,
     cold_vol_flow |-> Zero, velocity |-> Zero, re |-> Zero, nu |-> Zero,
     h_hot |-> Zero, re_cold |-> Zero, nu_cold |-> Zero]

\* 1.0 / (h * a_wetted) if h > 0 else 999.0
ConvResistance(h, a_wetted) ==
    IF IsPos(h) THEN FDiv(One, FMul(h, a_wetted)) ELSE Lit(999, 0)

\* r.total_teg_count = cfg.teg_count
EnterStep(cfg) == [ModelResults EXCEPT !.total_teg_count = cfg.teg_count]

\* t_hot_avg, t_cold_avg
THotAvg(cfg) == FSub(cfg.hot_inlet_c, FDiv(cfg.target_dt_fluid_c, Two))
TColdAvg(cfg) == FAdd(cfg.cold_inlet_c, FDiv(cfg.target_dt_fluid_c, Two))

\* get_fluid_props raises for the hot or for the cold fluid
PropsRaises(backend, cfg) ==
    \/ get_fluid_props(backend, cfg.hot_fluid, THotAvg(cfg)).raised # "none"
    \/ get_fluid_props(backend, cfg.cold_fluid, TColdAvg(cfg)).raised # "none"

\* the fields and locals set once both property sets are known
PropsPack(r, t_hot_avg, t_cold_avg, hot_props, cold_props) ==
    [r |-> [r EXCEPT !.hot_fluid_name = hot_props.name,
                     !.cold_fluid_name = cold_props.name,
                     !.t_hot_fluid_avg_c = t_hot_avg,
                     !.t_cold_fluid_avg_c = t_cold_avg],
     L |-> [NoLocals EXCEPT !.t_hot_avg = t_hot_avg, !.t_cold_avg = t_cold_avg,
                            !.hot_props = hot_props, !.cold_props = cold_props]]

\* Fluid properties at bulk average temp (get_fluid_props does not raise):
\* the result r and the locals L after it
PropsStep(backend, cfg, r) ==
    PropsPack(r, THotAvg(cfg), TColdAvg(cfg),
              get_fluid_props(backend, cfg.hot_fluid, THotAvg(cfg)).value,
              get_fluid_props(backend, cfg.cold_fluid, TColdAvg(cfg)).value)

\* mass flow = total heat / (Cp * dT_fluid); volume flow = mass flow / rho
VolFlow(total_heat, props, cfg) ==
    FDiv(FDiv(total_heat, FMul(props.cp, cfg.target_dt_fluid_c)), props.rho)

\* the whole array's flow through one channel set
ChannelVelocity_WholeArray(vol_flow, cfg) == FDiv(vol_flow, total_flow_area(cfg.hx))

\* vol_per_teg = vol_flow / cfg.teg_count; velocity = vol_per_teg / hx.total_flow_area
ChannelVelocity(vol_flow, cfg) ==
    FDiv(FDiv(vol_flow, FromInt(cfg.teg_count)), total_flow_area(cfg.hx))

\* rho * velocity * d / mu
Reynolds(props, velocity, d) == FDiv(FMul(FMul(props.rho, velocity), d), props.mu)

\* one side's convection: Reynolds, Nusselt, h = nu * k / dh, and the
\* convection resistance per TEG
SideH(re, nu, h, a_wetted) ==
    [re |-> re, nu |-> nu, h |-> h, r_conv |-> ConvResistance(h, a_wetted)]
SideNu(props, re, nu, dh, a_wetted) == SideH(re, nu, FDiv(FMul(nu, props.k), dh), a_wetted)
SideRe(props, re, dh, a_wetted, heating) ==
    SideNu(props, re, nusselt_dittus_boelter(re, props.pr, heating), dh, a_wetted)
ConvSide(props, velocity, dh, a_wetted, heating) ==
    SideRe(props, Reynolds(props, velocity, dh), dh, a_wetted, heating)

\* a_wetted = hx.wetted_area_per_channel * hx.n_channels
WettedArea(hx) == FMul(wetted_area_per_channel(hx), FromInt(hx.n_channels))

\* TIM resistances: thickness / (k * a_contact)
HotTimResistance(hx) == FDiv(hx.hot_tim_thickness_m, FMul(hx.hot_tim_k, teg_contact_area(hx)))
ColdTimResistance(hx) ==
    FDiv(hx.cold_tim_thickness_m, FMul(hx.cold_tim_k, teg_contact_area(hx)))

\* a chain that leaves the cold interface layer out of the sum
ChainTotal_NoColdTim(r_hot_conv, r_hot_tim, r_teg, r_cold_tim, r_cold_conv) ==
    FAdd(FAdd(FAdd(r_hot_conv, r_hot_tim), r_teg), r_cold_conv)

\* r_hot_conv + r_hot_tim + r_teg + r_cold_tim + r_cold_conv
ChainTotal(r_hot_conv, r_hot_tim, r_teg, r_cold_tim, r_cold_conv) ==
    FAdd(FAdd(FAdd(FAdd(r_hot_conv, r_hot_tim), r_teg), r_cold_tim), r_cold_conv)

\* a division of the first pass has a zero divisor (ZeroDivisionError):
\* teg.r_thermal * 1.5, cp * target_dt_fluid_c, or cfg.teg_count
SeedRaises(cfg, L) ==
    \/ IsZero(FMul(cfg.teg_spec.r_thermal, Lit(15, -1)))
    \/ IsZero(FMul(L.hot_props.cp, cfg.target_dt_fluid_c))
    \/ cfg.teg_count = 0

\* total_heat_est = q_teg_est * cfg.teg_count, q_teg_est = dt_total / (r_thermal * 1.5)
SeedHeat(cfg, L) ==
    FMul(FDiv(FSub(L.t_hot_avg, L.t_cold_avg), FMul(cfg.teg_spec.r_thermal, Lit(15, -1))),
         FromInt(cfg.teg_count))

\* the first pass's channel velocity (hot side; the cold side's estimate
\* cold_vel_est divides the same vol_per_teg by the same area)
SeedVelocity(cfg, L) == ChannelVelocity(VolFlow(SeedHeat(cfg, L), L.hot_props, cfg), cfg)

\* `Store resistances`: the fields and locals the first pass leaves
SeedPack(cfg, r, L, hot_vol_flow, velocity, hot, cold) ==
    LET r_hot_tim == HotTimResistance(cfg.hx)
        r_cold_tim == ColdTimResistance(cfg.hx)
        r_teg == cfg.teg_spec.r_thermal
        r_total == ChainTotal(hot.r_conv, r_hot_tim, r_teg, r_cold_tim, cold.r_conv)
    IN [r |-> [r EXCEPT !.hot_reynolds = hot.re, !.hot_nusselt = hot.nu,
                        !.hot_h_conv = hot.h,
                        !.r_hot_conv = hot.r_conv, !.r_hot_tim = r_hot_tim,
                        !.r_teg = r_teg, !.r_cold_tim = r_cold_tim,
                        !.r_cold_conv = cold.r_conv, !.r_total = r_total],
        L |-> [L EXCEPT !.dt_total = FSub(L.t_hot_avg, L.t_cold_avg),
                        !.dh = hydraulic_diameter(cfg.hx),
                        !.a_wetted = WettedArea(cfg.hx),
                        !.r_hot_tim = r_hot_tim, !.r_teg = r_teg,
                        !.r_cold_tim = r_cold_tim, !.r_total = r_total,
                        !.hot_vol_flow = hot_vol_flow, !.velocity = velocity,
                        !.re = hot.re, !.nu = hot.nu, !.h_hot = hot.h,
                        !.re_cold = cold.re, !.nu_cold = cold.nu]]

\* the first pass: heat per TEG estimated from the TEG alone, flow, Reynolds,
\* Nusselt, the five resistances
SeedStep(cfg, r, L) ==
    SeedPack(cfg, r, L, VolFlow(SeedHeat(cfg, L), L.hot_props, cfg), SeedVelocity(cfg, L),
             ConvSide(L.hot_props, SeedVelocity(cfg, L), hydraulic_diameter(cfg.hx),
                      WettedArea(cfg.hx), FALSE),
             ConvSide(L.cold_props, SeedVelocity(cfg, L), hydraulic_diameter(cfg.hx),
                      WettedArea(cfg.hx), TRUE))

\* the loop body divides by a zero r_total (ZeroDivisionError)
IterRaises(L) == IsZero(L.r_total)

\* q_per_teg = dt_total / r_total
IterHeatPerTeg(L) == FDiv(L.dt_total, L.r_total)

\* total_heat = q_per_teg * cfg.teg_count
IterHeat(cfg, L) == FMul(IterHeatPerTeg(L), FromInt(cfg.teg_count))

\* the fields and locals one pass of the loop leaves
IterPack(cfg, r, L, hot, cold) ==
    LET r_total == ChainTotal(hot.r_conv, L.r_hot_tim, L.r_teg, L.r_cold_tim, cold.r_conv)
        hot_vol_flow == VolFlow(IterHeat(cfg, L), L.hot_props, cfg)
    IN [r |-> [r EXCEPT !.r_hot_conv = hot.r_conv, !.r_cold_conv = cold.r_conv,
                        !.r_total = r_total],
        L |-> [L EXCEPT !.q_per_teg = IterHeatPerTeg(L), !.total_heat = IterHeat(cfg, L),
                        !.hot_vol_flow = hot_vol_flow,
                        !.cold_vol_flow = VolFlow(IterHeat(cfg, L), L.cold_props, cfg),
                        !.velocity = ChannelVelocity(hot_vol_flow, cfg),
                        !.re = hot.re, !.nu = hot.nu, !.h_hot = hot.h,
                        !.re_cold = cold.re, !.nu_cold = cold.nu,
                        !.r_total = r_total]]

\* one pass of `for _ in range(10)`: heat from the resistance chain, both
\* flows, both convection resistances, the chain again
IterStep(cfg, r, L) ==
    IterPack(cfg, r, L,
             ConvSide(L.hot_props,
                      ChannelVelocity(VolFlow(IterHeat(cfg, L), L.hot_props, cfg), cfg),
                      L.dh, L.a_wetted, FALSE),
             ConvSide(L.cold_props,
                      ChannelVelocity(VolFlow(IterHeat(cfg, L), L.cold_props, cfg), cfg),
                      L.dh, L.a_wetted, TRUE))

\* modules per PCM board (teg_count // 36; mcf_for_target rounds to it)
BOARD == 36

\* max(1, a) on ints
Max1(a) == IF a > 1 THEN a ELSE 1

\* Temperature profile and delta-T across TEG
TempProfile(r, L) ==
    LET t_hot_fin_surface_c == FSub(L.t_hot_avg, FMul(L.q_per_teg, r.r_hot_conv))
        t_teg_hot_c == FSub(t_hot_fin_surface_c, FMul(L.q_per_teg, r.r_hot_tim))
        t_teg_cold_c == FSub(t_teg_hot_c, FMul(L.q_per_teg, r.r_teg))
        t_cold_fin_surface_c == FSub(t_teg_cold_c, FMul(L.q_per_teg, r.r_cold_tim))
    IN [t_hot_fin_surface_c |-> t_hot_fin_surface_c, t_teg_hot_c |-> t_teg_hot_c,
        t_teg_cold_c |-> t_teg_cold_c, t_cold_fin_surface_c |-> t_cold_fin_surface_c,
        dt_across_teg_c |-> FSub(t_teg_hot_c, t_teg_cold_c)]

\* Darcy-Weisbach: f * (length / d) * 0.5 * rho * vel**2, with f the friction
\* factor at the Reynolds number of vel in a duct of diameter d
DarcyDp(props, vel, d, length) ==
    FMul(FMul(FMul(FMul(friction_factor(Reynolds(props, vel, d), DefaultRoughness, d),
                        FDiv(length, d)), Half), props.rho), FSq(vel))

\* math.pi * (id / 2.0)**2
CircleArea(id) == FMul(Pi, FSq(FDiv(id, Two)))

\* vol_flow / area if area > 0 else 0.0
DuctVelocity(vol_flow, area) == IF IsPos(area) THEN FDiv(vol_flow, area) ELSE Zero

\* n_towers = max(1, teg_count // (tegs_per_panel * panels_per_tower))
Towers(cfg) == Max1(cfg.teg_count \div (cfg.tegs_per_panel * cfg.panels_per_tower))

\* Pressure drop: fin channels, manifold (2 m per tower), piping
PressureDrops(cfg, L) ==
    [channel |-> DarcyDp(L.hot_props, L.velocity, L.dh, cfg.hx.channel_length_m),
     manifold |-> DarcyDp(L.hot_props,
                          DuctVelocity(L.hot_vol_flow, CircleArea(cfg.hx.manifold_id_m)),
                          cfg.hx.manifold_id_m, FMul(FromInt(Towers(cfg)), Two)),
     pipe |-> DarcyDp(L.hot_props, DuctVelocity(L.hot_vol_flow, CircleArea(cfg.pipe_id_m)),
                      cfg.pipe_id_m, cfg.hot_pipe_length_m)]

\* the parasitic load added to the gross output instead of subtracted
NetElectrical_Added(gross_electrical_w, total_parasitic) ==
    FAdd(gross_electrical_w, total_parasitic)

\* net_electrical_w = gross_electrical_w - total_parasitic
NetElectrical(gross_electrical_w, total_parasitic) ==
    FSub(gross_electrical_w, total_parasitic)

\* the operands of the heat balance exchanged
HeatRejection_Swapped(total_heat_input_w, gross_electrical_w) ==
    FSub(gross_electrical_w, total_heat_input_w)

\* total_heat_rejection_w = total_heat_input_w - gross_electrical_w
HeatRejection(total_heat_input_w, gross_electrical_w) ==
    FSub(total_heat_input_w, gross_electrical_w)

\* an allowance counting boards and nodes by rounding up
Electronics_RoundedUp(teg_count) ==
    FAdd(FMul(FromInt(Max1((teg_count + BOARD - 1) \div BOARD)), Lit(15, -1)),
         FMul(FromInt(Max1((Max1((teg_count + BOARD - 1) \div BOARD) + 2) \div 3)),
              Lit(3, 0)))

\* n_pcms = max(1, teg_count // 36); n_nodes = max(1, n_pcms // 3);
\* electronics_w = n_pcms * 1.5 + n_nodes * 3.0
Electronics(teg_count) ==
    FAdd(FMul(FromInt(Max1(teg_count \div BOARD)), Lit(15, -1)),
         FMul(FromInt(Max1(Max1(teg_count \div BOARD) \div 3)), Lit(3, 0)))

\* a fraction reported as 1 when there is no gross output
ParasiticFraction_AllWhenIdle(total_parasitic, gross_electrical_w) ==
    IF IsPos(gross_electrical_w) THEN FDiv(total_parasitic, gross_electrical_w) ELSE One

\* total_parasitic / r.gross_electrical_w if r.gross_electrical_w > 0 else 0.0
ParasiticFraction(total_parasitic, gross_electrical_w) ==
    IF IsPos(gross_electrical_w) THEN FDiv(total_parasitic, gross_electrical_w) ELSE Zero

\* the totals, pump power and net output, from the pressure drops dp and the
\* parasitic loads: the ModelResults returned
FinalTotals(cfg, r, L, tp, teg_perf, dp, gross_electrical_w, total_heat_rejection_w, pump_power_hot_w, pump_power_cold_w) ==
    LET pump_power_total_w == FAdd(pump_power_hot_w, pump_power_cold_w)
        fan_power_w == FMul(FDiv(total_heat_rejection_w, Lit(1000, 0)), Lit(15, 0))
        electronics_w == Electronics(cfg.teg_count)
        total_parasitic == FAdd(FAdd(pump_power_total_w, fan_power_w), electronics_w)
        net_electrical_w == NetElectrical(gross_electrical_w, total_parasitic)
        hot_dp_total_pa == FAdd(FAdd(dp.channel, dp.manifold), dp.pipe)
    IN [r EXCEPT
          !.heat_per_teg_w = L.q_per_teg,
          !.total_heat_input_w = L.total_heat,
          !.t_hot_fin_surface_c = tp.t_hot_fin_surface_c,
          !.t_teg_hot_c = tp.t_teg_hot_c,
          !.t_teg_cold_c = tp.t_teg_cold_c,
          !.t_cold_fin_surface_c = tp.t_cold_fin_surface_c,
          !.dt_across_teg_c = tp.dt_across_teg_c,
          !.power_per_teg_w = teg_perf.power_w,
          !.teg_efficiency = teg_perf.efficiency,
          !.teg_voltage_v = teg_perf.voltage_v,
          !.teg_current_a = teg_perf.current_a,
          !.gross_electrical_w = gross_electrical_w,
          !.total_heat_rejection_w = total_heat_rejection_w,
          !.hot_flow_rate_m3s = L.hot_vol_flow,
          !.hot_flow_rate_gpm = FMul(L.hot_vol_flow, Lit(158503, -1)),
          !.hot_velocity_channel_ms = L.velocity,
          !.hot_reynolds = L.re,
          !.hot_nusselt = L.nu,
          !.hot_h_conv = L.h_hot,
          !.cold_flow_rate_m3s = L.cold_vol_flow,
          !.cold_flow_rate_gpm = FMul(L.cold_vol_flow, Lit(158503, -1)),
          !.hot_dp_channel_pa = dp.channel,
          !.hot_dp_manifold_pa = dp.manifold,
          !.hot_dp_pipe_pa = dp.pipe,
          !.hot_dp_total_pa = hot_dp_total_pa,
          !.cold_dp_total_pa = FMul(hot_dp_total_pa, Lit(9, -1)),
          !.pump_power_hot_w = pump_power_hot_w,
          !.pump_power_cold_w = pump_power_cold_w,
          !.pump_power_total_w = pump_power_total_w,
          !.fan_power_w = fan_power_w,
          !.electronics_w = electronics_w,
          !.net_electrical_w = net_electrical_w,
          !.net_electrical_kw = FDiv(net_electrical_w, Lit(1000, 0)),
          !.parasitic_fraction = ParasiticFraction(total_parasitic, gross_electrical_w)]

\* (dp_total * vol_flow) / cfg.pump_efficiency
PumpPower(dp_total_pa, vol_flow, cfg) ==
    FDiv(FMul(dp_total_pa, vol_flow), cfg.pump_efficiency)

\* gross output and heat rejection from the TEG's electrical performance, pump
\* power from the pressure drops (cold side: 0.9 of the hot side's total)
FinalPower(cfg, r, L, tp, teg_perf, dp, gross_electrical_w) ==
    FinalTotals(cfg, r, L, tp, teg_perf, dp, gross_electrical_w,
                HeatRejection(L.total_heat, gross_electrical_w),
                PumpPower(FAdd(FAdd(dp.channel, dp.manifold), dp.pipe), L.hot_vol_flow, cfg),
                PumpPower(FMul(FAdd(FAdd(dp.channel, dp.manifold), dp.pipe), Lit(9, -1)),
                          L.cold_vol_flow, cfg))

\* TEG electrical performance at the delta-T of the profile tp
FinalElectrical(cfg, r, L, tp, teg_perf, dp) ==
    FinalPower(cfg, r, L, tp, teg_perf, dp,
               FMul(teg_perf.power_w, FromInt(cfg.teg_count)))

FinalProfile(cfg, r, L, tp) ==
    FinalElectrical(cfg, r, L, tp, electrical_output(cfg.teg_spec, tp.dt_across_teg_c),
                    PressureDrops(cfg, L))

\* Final values, pressure drop, pump power, net output: the result returned
FinalStep(cfg, r, L) == FinalProfile(cfg, r, L, TempProfile(r, L))

\* the number of passes of run_model's convergence loop
N_ITER == 10

\* a frame of run_model: the result so far, the locals, the exception raised
Frame(rl, exc) == [r |-> rl.r, L |-> rl.L, raised |-> exc]

RECURSIVE IterLoop(_, _, _)
\* k more passes of the loop from frame fr
IterLoop(cfg, fr, k) ==
    IF k = 0 \/ fr.raised # "none" THEN fr
    ELSE IF IterRaises(fr.L) THEN [fr EXCEPT !.raised = "ZeroDivisionError"]
    ELSE IterLoop(cfg, Frame(IterStep(cfg, fr.r, fr.L), "none"), k - 1)

\* what a call that raised exc leaves to its caller: no ModelResults
Raised(exc) == [raised |-> exc, r |-> ModelResults]

\* run_model from the loop's last frame on
RunFinal(cfg, fr) ==
    IF fr.raised # "none" THEN Raised(fr.raised)
    ELSE [raised |-> "none", r |-> FinalStep(cfg, fr.r, fr.L)]

\* run_model from the property lookup's frame p on
RunSeed(cfg, p) ==
    IF SeedRaises(cfg, p.L) THEN Raised("ZeroDivisionError")
    ELSE RunFinal(cfg, IterLoop(cfg, Frame(SeedStep(cfg, p.r, p.L), "none"), N_ITER))

\* run_model(cfg) as a function: [raised |-> the exception's name or "none",
\* r |-> the ModelResults returned when none is raised]
run_model(backend, cfg) ==
    IF PropsRaises(backend, cfg) THEN Raised("ValueError")
    ELSE RunSeed(cfg, PropsStep(backend, cfg, EnterStep(cfg)))

----------------------------------------------------------------------------
(* The configurations run_model is called with *)

\* boards in the largest whole-board array the solver is called with directly
MaxBoards == 2

\* SystemConfig's default teg_count
DefaultCount == 1620

\* counts that are not whole boards, or whose boards are not whole nodes
PartBoardCounts == {50, 5 * BOARD}

PositiveCounts == {1, DefaultCount} \cup {BOARD * b : b \in 1..MaxBoards}

\* (hot_inlet_c, cold_inlet_c): the default, a thermal-oil scenario, a hot inlet
\* colder than the cold inlet, and inlets exactly target_dt apart
InletPairs ==
    {<<Lit(200, 0), Lit(40, 0)>>, <<Lit(350, 0), Lit(100, 0)>>,
     <<Lit(40, 0), Lit(200, 0)>>, <<Lit(50, 0), Lit(40, 0)>>}

\* target_dt_fluid_c: the default, and rises small enough for transitional
\* and turbulent channel flow
FluidRises == {Lit(10, 0), Lit(5, -2), Lit(2, -2)}

KnownFluidPairs == {<<"water_glycol", "water_glycol">>, <<"therminol", "therminol">>}

UnknownFluidPairs ==
    {<<"steam", "water_glycol">>, <<"glycol", "Therminol">>, <<"", "">>}

\* TEGSpec objects outside the catalog: zero, negative, and chain-cancelling
\* thermal resistance
ZeroResistanceTEG == [MARLOW_TG1_1008 EXCEPT !.name = "zero r_thermal", !.r_thermal = Zero]
NegativeResistanceTEG ==
    [MARLOW_TG1_1008 EXCEPT !.name = "negative r_thermal", !.r_thermal = Lit(-152, -2)]

\* the negative r_thermal for which the resistance chain of the default
\* exchanger in laminar fallback-property flow sums to zero
ChainCancellingTEG ==
    [MARLOW_TG1_1008 EXCEPT !.name = "chain-cancelling r_thermal",
                            !.r_thermal = Lit(-35513975, -8)]

CatalogTEGs == {TEG_CATALOG[k] : k \in DOMAIN TEG_CATALOG}

\* a fluid rise that puts the channel flow just above Re = 2300, where the
\* convective resistances still move between the last two passes of the loop
JustTransitionalConfig ==
    SystemConfig(DefaultCount, THERMONAMIC_PB12611, "water_glycol", "water_glycol",
                 Lit(200, 0), Lit(40, 0), Lit(1, -1))

\* every count, module, fluid family and inlet pair at the default fluid rise,
\* and the baseline module at the smaller rises
PhysicalConfigs ==
    {SystemConfig(n, t, f[1], f[2], io[1], io[2], Lit(10, 0)) :
        n \in PositiveCounts, t \in CatalogTEGs, f \in KnownFluidPairs, io \in InletPairs}
    \cup {SystemConfig(n, MARLOW_TG1_1008, f[1], f[2], Lit(200, 0), Lit(40, 0), d) :
            n \in PositiveCounts, f \in KnownFluidPairs, d \in FluidRises}
    \cup {SystemConfig(n, MARLOW_TG1_1008, "water_glycol", "water_glycol",
                       Lit(200, 0), Lit(40, 0), Lit(10, 0)) : n \in PartBoardCounts}
    \cup {JustTransitionalConfig}

NonPhysicalConfigs ==
    {SystemConfig(n, MARLOW_TG1_1008, "water_glycol", "water_glycol",
                  Lit(200, 0), Lit(40, 0), Lit(10, 0)) : n \in {0, -BOARD, -1}}
    \cup {SystemConfig(n, t, "water_glycol", "water_glycol",
                       Lit(200, 0), Lit(40, 0), Lit(10, 0)) :
            n \in {BOARD},
            t \in {ZeroResistanceTEG, NegativeResistanceTEG, ChainCancellingTEG}}
    \cup {SystemConfig(BOARD, MARLOW_TG1_1008, "water_glycol", "water_glycol",
                       Lit(200, 0), Lit(40, 0), d) : d \in {Zero, Lit(-10, 0)}}

UnknownFluidConfigs ==
    {SystemConfig(n, MARLOW_TG1_1008, f[1], f[2], Lit(200, 0), Lit(40, 0), Lit(10, 0)) :
        n \in {0, BOARD}, f \in UnknownFluidPairs}

Configs == PhysicalConfigs \cup NonPhysicalConfigs \cup UnknownFluidConfigs

----------------------------------------------------------------------------
(* mcf_for_target: the sizing search *)

BTU_PER_MCF == Lit(1020000, 0)
KWH_PER_BTU == Lit(293071, -9)
KWH_THERMAL_PER_MCF == FMul(BTU_PER_MCF, KWH_PER_BTU)
HOURS_PER_DAY == Lit(24, 0)
GAS_PRICES == <<Lit(25, -1), Lit(4, 0), Lit(6, 0)>>

\* float("inf")
Inf == <<MantLo, 9999>>

\* BurnerSpec(): the dataclass defaults
DEFAULT_BURNER == [efficiency |-> Lit(88, -2), pipe_loss_fraction |-> Lit(5, -2)]

\* BurnerSpec.delivery_efficiency
delivery_efficiency(burner) == FMul(burner.efficiency, FSub(One, burner.pipe_loss_fraction))

\* lo, hi = 10, 50_000
SEARCH_LO == 10
SEARCH_HI == 50000

\* for _ in range(30)
SEARCH_STEPS == 30

\* n // 36 * 36: rounding down to a whole board
RoundToBoard_Floor(n) == BOARD * (n \div BOARD)

\* round(n / 36) * 36: Python's round takes an exact half to the even integer
RoundToBoard(n) ==
    BOARD * (IF 2 * (n % BOARD) < BOARD THEN n \div BOARD
             ELSE IF 2 * (n % BOARD) > BOARD THEN n \div BOARD + 1
             ELSE IF (n \div BOARD) % 2 = 0 THEN n \div BOARD
             ELSE n \div BOARD + 1)

\* a probe at the upper end of the interval
Mid_UpperEnd(l, h) == h

\* mid = (lo + hi) // 2
Mid(l, h) == (l + h) \div 2

\* mid_rounded = max(36, round(mid / 36) * 36)
MidRounded(mid) == IF RoundToBoard(mid) > BOARD THEN RoundToBoard(mid) ELSE BOARD

\* teg = TEG_CATALOG.get(teg_type, MARLOW_TG1_1008)
CatalogGet(teg_type) ==
    IF teg_type \in DOMAIN TEG_CATALOG THEN TEG_CATALOG[teg_type] ELSE MARLOW_TG1_1008

\* Auto-select fluid
AutoFluid(hot_temp) == IF FGt(hot_temp, Lit(220, 0)) THEN "therminol" ELSE "water_glycol"

\* the SystemConfig the search builds for a module count
SearchConfig(args, teg_count) ==
    SystemConfig(teg_count, CatalogGet(args.teg_type), AutoFluid(args.hot_temp),
                 AutoFluid(args.hot_temp), args.hot_temp, args.cold_temp, Lit(10, 0))

NoArgs == [target_kw |-> Zero, teg_type |-> "marlow", hot_temp |-> Lit(200, 0),
           cold_temp |-> Lit(40, 0)]

\* best_cfg = None, best_result = None
NoBest == [found |-> FALSE, teg_count |-> 0, r |-> ModelResults]

NoResult == [teg_type |-> "", teg_count |-> 0]

\* cost_per_kwh[price] and fuel_cost_per_day[price] for each gas price
CostPerKwh(mcf_per_day, price, daily_kwh_produced) ==
    IF IsPos(daily_kwh_produced) THEN FDiv(FMul(mcf_per_day, price), daily_kwh_produced)
    ELSE Inf

\* the McfResult, from the fuel input required
McfFields(args, teg_count, m, burner, total_heat_kw, fuel_thermal_kw, mcf_per_day) ==
    [teg_type |-> args.teg_type,
     teg_count |-> teg_count,
     hot_temp_c |-> args.hot_temp,
     cold_temp_c |-> args.cold_temp,
     mcf_per_day |-> mcf_per_day,
     thermal_input_kw |-> fuel_thermal_kw,
     hx_delivery_kw |-> total_heat_kw,
     gross_electrical_kw |-> FDiv(m.gross_electrical_w, Lit(1000, 0)),
     parasitic_kw |-> FDiv(FAdd(FAdd(m.pump_power_total_w, m.fan_power_w), m.electronics_w),
                           Lit(1000, 0)),
     net_electrical_kw |-> FDiv(m.net_electrical_kw, Lit(1000, 0)),
     burner_efficiency |-> delivery_efficiency(burner),
     teg_efficiency |-> m.teg_efficiency,
     system_efficiency |-> IF IsPos(fuel_thermal_kw)
                           THEN FDiv(FDiv(m.net_electrical_w, Lit(1000, 0)), fuel_thermal_kw)
                           ELSE Zero,
     heat_rejection_kw |-> FDiv(m.total_heat_rejection_w, Lit(1000, 0)),
     cost_per_kwh |-> [i \in DOMAIN GAS_PRICES |->
                         CostPerKwh(mcf_per_day, GAS_PRICES[i],
                                    FMul(m.net_electrical_kw, HOURS_PER_DAY))],
     fuel_cost_per_day |-> [i \in DOMAIN GAS_PRICES |-> FMul(mcf_per_day, GAS_PRICES[i])]]

\* mcf_per_day = fuel_thermal_kw * HOURS_PER_DAY / KWH_THERMAL_PER_MCF
McfFuel(args, teg_count, m, burner, total_heat_kw, fuel_thermal_kw) ==
    McfFields(args, teg_count, m, burner, total_heat_kw, fuel_thermal_kw,
              FDiv(FMul(fuel_thermal_kw, HOURS_PER_DAY), KWH_THERMAL_PER_MCF))

\* fuel_thermal_kw = total_heat_kw / burner.delivery_efficiency
McfHeat(args, teg_count, m, burner, total_heat_kw) ==
    McfFuel(args, teg_count, m, burner, total_heat_kw,
            FDiv(total_heat_kw, delivery_efficiency(burner)))

\* `r = best_result` to `return result`: total_heat_kw = r.total_heat_input_w / 1000.0
McfResult(args, teg_count, m, burner) ==
    McfHeat(args, teg_count, m, burner, FDiv(m.total_heat_input_w, Lit(1000, 0)))

----------------------------------------------------------------------------
(* System cost: calculate_system_cost (costs/cost_model.py) *)

\* TEGCost(name, power_w, unit_price, heat_flux_w, life_years, fluid_type, hx_material)
TEGCost(name, power_w, unit_price, heat_flux_w, life_years, fluid_type, hx_material) ==
    [name |-> name, power_w |-> power_w, unit_price |-> unit_price,
     heat_flux_w |-> heat_flux_w, life_years |-> life_years,
     fluid_type |-> fluid_type, hx_material |-> hx_material]

MARLOW ==
    TEGCost("Marlow TG1-1008 (BiTe)", Lit(616, -2), Lit(25, 0), Lit(122, 0),
            Lit(20, 0), "water_glycol", "copper")
THERMONAMIC ==
    TEGCost("Thermonamic TEG1-PB-12611 (PbTe)", Lit(13, 0), Lit(50, 0), Lit(310, 0),
            Lit(8, 0), "therminol", "stainless")
THERMONAMIC_DERATED ==
    TEGCost("Thermonamic (PbTe @ 320C derated)", Lit(105, -1), Lit(50, 0), Lit(270, 0),
            Lit(8, 0), "therminol", "stainless")
ALPHABET_PB ==
    TEGCost("Alphabet Pb-enhanced (est.)", Lit(19, 0), Lit(65, 0), Lit(280, 0),
            Lit(10, 0), "therminol", "stainless")

TEG_OPTIONS ==
    [k \in {"marlow", "thermonamic", "thermonamic_derated", "alphabet"} |->
        CASE k = "marlow" -> MARLOW
          [] k = "thermonamic" -> THERMONAMIC
          [] k = "thermonamic_derated" -> THERMONAMIC_DERATED
          [] k = "alphabet" -> ALPHABET_PB]

TEGS_PER_PCM == 36
PCMS_PER_NODE == 3

INTERCONNECT_COST == Lit(2180, -2)
PCM_COST_BITE == Lit(13102, -2)
PCM_COST_PBTE == Lit(13705, -2)
NODE_COST == Lit(8859, -2)

HX_COPPER ==
    [hot_cell |-> Lit(12, 0), cold_cell |-> Lit(4, 0), hot_tim |-> Lit(8, -1),
     cold_tim |-> Lit(5, -1), hot_manifold_per_ft |-> Lit(8, 0),
     cold_manifold_per_ft |-> Lit(4, 0), insulation_per_ft2 |-> Lit(25, -1),
     manifold_ft_per_teg |-> Lit(8, -2)]
HX_STAINLESS ==
    [hot_cell |-> Lit(18, 0), cold_cell |-> Lit(5, 0), hot_tim |-> Lit(25, -1),
     cold_tim |-> Lit(5, -1), hot_manifold_per_ft |-> Lit(12, 0),
     cold_manifold_per_ft |-> Lit(6, 0), insulation_per_ft2 |-> Lit(8, 0),
     manifold_ft_per_teg |-> Lit(1, -1)]

FLUID_WATER_GLYCOL ==
    [skid |-> 2500, heater |-> 3500, primary_hx |-> 4000, hot_pump |-> 1200,
     cold_pump |-> 800, expansion |-> 600, fluid |-> 400, piping |-> 1500,
     controls |-> 1200, safety |-> 0]
FLUID_THERMINOL ==
    [skid |-> 3000, heater |-> 9500, primary_hx |-> 0, hot_pump |-> 6500,
     cold_pump |-> 1000, expansion |-> 650 + 350, fluid |-> 4125,
     piping |-> 2800 + 1200, controls |-> 1800, safety |-> 700]

DRY_COOLER_COST_PER_KW == Lit(45, 0)
GROUND_LOOP_COST_PER_BOREHOLE == 150 * 82
GROUND_LOOP_KW_PER_BOREHOLE == Lit(6, 0)

CONTAINER_FIXED ==
    [container |-> 4500, electrical_panel |-> 1800, inverter_per_kw |-> 250,
     hmi |-> 800, safety |-> 500, cable_trays |-> 1000]

TOWER_COST_COPPER == Lit(120, 0)
TOWER_COST_SS == Lit(180, 0)
SLIDE_RAIL == Lit(45, 0)
CLAMP_PER_TOWER == 5 * 25
QD_UNION_COST == Lit(18, 0)
QD_UNION_SS == Lit(35, 0)
FLOOR_GRATING_PER_FT2 == Lit(12, 0)
WALL_INSULATION_PER_FT2 == Lit(3, 0)
WALL_INSULATION_SS_PER_FT2 == Lit(35, -1)
CAT5E_CABLE == Lit(5, 0)
MOLEX_CABLE == Lit(8, 0)
BUS_BAR_BASE == Lit(800, 0)
BUS_BAR_PER_NODE == Lit(25, 0)

\* SystemCost(): every field at its default
SystemCost ==
    [teg_name |-> "", target_kw |-> Zero, teg_count |-> 0, pcm_count |-> 0,
     node_count |-> 0, tower_count |-> 0,
     teg_cost |-> Zero, tier1_cost |-> Zero, tier2_cost |-> Zero, tier3_cost |-> Zero,
     electronics_total |-> Zero, hx_cells_cost |-> Zero, hx_manifold_cost |-> Zero,
     hx_insulation_cost |-> Zero, hx_total |-> Zero, fluid_total |-> Zero,
     cooling_total |-> Zero, container_total |-> Zero, subtotal |-> Zero,
     volume_discount |-> Zero, estimated_total |-> Zero, cost_per_kw |-> Zero,
     heat_rejection_kw |-> Zero, boreholes_needed |-> 0, ground_loop_cost |-> Zero,
     teg_replacements_20yr |-> 0, lifecycle_teg_cost_20yr |-> Zero,
     lifecycle_total_20yr |-> Zero, lifecycle_cost_per_kwh |-> Zero]

\* math.ceil(a) of a float, as an int
FCeil(a) ==
    IF a[2] >= 0 THEN a[1] * 10 ^ a[2]
    ELSE IF a[2] < -9 THEN (IF a[1] > 0 THEN 1 ELSE 0)
    ELSE -((-a[1]) \div 10 ^ (-a[2]))

\* math.ceil(n / d) of ints
CeilDiv(n, d) == -((-n) \div d)

\* boards rounded down: the last, partly filled board is left out
Sizing_DropsPartBoard(r, tegs_raw) ==
    [r EXCEPT !.pcm_count = tegs_raw \div TEGS_PER_PCM,
              !.teg_count = (tegs_raw \div TEGS_PER_PCM) * TEGS_PER_PCM,
              !.node_count = CeilDiv(tegs_raw \div TEGS_PER_PCM, PCMS_PER_NODE),
              !.tower_count = CeilDiv((tegs_raw \div TEGS_PER_PCM) * TEGS_PER_PCM, 80)]

\* Sizing: pcm_count = ceil(tegs_raw / 36), teg_count rounded up to full
\* boards, node_count = ceil(pcm_count / 3), tower_count = ceil(teg_count / 80)
Sizing(r, tegs_raw) ==
    [r EXCEPT !.pcm_count = CeilDiv(tegs_raw, TEGS_PER_PCM),
              !.teg_count = CeilDiv(tegs_raw, TEGS_PER_PCM) * TEGS_PER_PCM,
              !.node_count = CeilDiv(CeilDiv(tegs_raw, TEGS_PER_PCM), PCMS_PER_NODE),
              !.tower_count = CeilDiv(CeilDiv(tegs_raw, TEGS_PER_PCM) * TEGS_PER_PCM, 80)]

\* TEG cost and electronics: tiers 1 and 2 per PCM, tier 3 per node
ElectronicsCost(r, teg, pcm_unit) ==
    [r EXCEPT !.teg_cost = FMul(FromInt(r.teg_count), teg.unit_price),
              !.tier1_cost = FMul(FromInt(r.pcm_count), INTERCONNECT_COST),
              !.tier2_cost = FMul(FromInt(r.pcm_count), pcm_unit),
              !.tier3_cost = FMul(FromInt(r.node_count), NODE_COST),
              !.electronics_total =
                  FAdd(FAdd(FMul(FromInt(r.pcm_count), INTERCONNECT_COST),
                            FMul(FromInt(r.pcm_count), pcm_unit)),
                       FMul(FromInt(r.node_count), NODE_COST))]

\* Heat exchanger: cells, manifold and insulation
HxCost(r, hx) ==
    LET manifold_ft == FMul(FromInt(r.teg_count), hx.manifold_ft_per_teg)
        cells == FMul(FromInt(r.teg_count),
                      FAdd(FAdd(FAdd(hx.hot_cell, hx.cold_cell), hx.hot_tim), hx.cold_tim))
        manifold == FMul(manifold_ft, FAdd(hx.hot_manifold_per_ft, hx.cold_manifold_per_ft))
        insulation == FMul(FMul(manifold_ft, Two), hx.insulation_per_ft2)
    IN  [r EXCEPT !.hx_cells_cost = cells, !.hx_manifold_cost = manifold,
                  !.hx_insulation_cost = insulation,
                  !.hx_total = FAdd(FAdd(cells, manifold), insulation)]

\* sum(fluid.values())
FluidSum(fluid) ==
    fluid.skid + fluid.heater + fluid.primary_hx + fluid.hot_pump + fluid.cold_pump
    + fluid.expansion + fluid.fluid + fluid.piping + fluid.controls + fluid.safety

\* Fluid system: pump and heater scaled for larger systems
FluidCost(r, fluid, target_kw) ==
    LET scale_factor == FMax(One, FDiv(target_kw, Lit(10, 0)))
    IN  [r EXCEPT !.fluid_total =
            IF FGt(scale_factor, Lit(15, -1))
            THEN FAdd(FromInt(FluidSum(fluid)),
                      FMul(FSub(scale_factor, One),
                           FAdd(FMul(FromInt(fluid.heater), Lit(3, -1)),
                                FMul(FromInt(fluid.hot_pump), Lit(2, -1)))))
            ELSE FromInt(FluidSum(fluid))]

\* Cooling: boreholes for a ground loop, else a dry cooler per kW rejected
CoolingCost(r, teg, cooling) ==
    LET heat_rejection_kw == FDiv(FMul(FromInt(r.teg_count), teg.heat_flux_w), Lit(1000, 0))
        boreholes == FCeil(FDiv(heat_rejection_kw, GROUND_LOOP_KW_PER_BOREHOLE))
    IN  IF cooling = "ground"
        THEN [r EXCEPT !.heat_rejection_kw = heat_rejection_kw,
                       !.boreholes_needed = boreholes,
                       !.ground_loop_cost = FromInt(boreholes * GROUND_LOOP_COST_PER_BOREHOLE),
                       !.cooling_total = FromInt(boreholes * GROUND_LOOP_COST_PER_BOREHOLE)]
        ELSE [r EXCEPT !.heat_rejection_kw = heat_rejection_kw,
                       !.cooling_total = FMul(heat_rejection_kw, DRY_COOLER_COST_PER_KW)]

\* container_var
ContainerVar(r, is_ss, tower_unit, qd_unit) ==
    FAdd(FAdd(FAdd(FAdd(FAdd(FAdd(FAdd(
        FMul(FromInt(r.tower_count),
             FAdd(FAdd(tower_unit, SLIDE_RAIL), FromInt(CLAMP_PER_TOWER))),
        FMul(FromInt(r.tower_count * 4), qd_unit)),
        FMul(FromInt(r.tower_count * 6), FLOOR_GRATING_PER_FT2)),
        FMul(FromInt(400), IF is_ss THEN WALL_INSULATION_SS_PER_FT2
                           ELSE WALL_INSULATION_PER_FT2)),
        FMul(FromInt(r.pcm_count), CAT5E_CABLE)),
        FMul(FromInt(r.pcm_count), MOLEX_CABLE)),
        BUS_BAR_BASE),
        FMul(FromInt(r.node_count), BUS_BAR_PER_NODE))

\* container_fixed
ContainerFixed(target_kw) ==
    FAdd(FAdd(FAdd(
        FAdd(FromInt(CONTAINER_FIXED.container + CONTAINER_FIXED.electrical_panel),
             FMul(target_kw, FromInt(CONTAINER_FIXED.inverter_per_kw))),
        FromInt(CONTAINER_FIXED.hmi)), FromInt(CONTAINER_FIXED.safety)),
        FromInt(CONTAINER_FIXED.cable_trays))

\* Container / integration
ContainerCost(r, is_ss, target_kw) ==
    [r EXCEPT !.container_total =
        FAdd(ContainerFixed(target_kw),
             ContainerVar(r, is_ss, IF is_ss THEN TOWER_COST_SS ELSE TOWER_COST_COPPER,
                          IF is_ss THEN QD_UNION_SS ELSE QD_UNION_COST))]

\* Rollup: subtotal, volume discount, estimated total, cost per kW
Rollup(r, teg, volume_discount_pct) ==
    LET subtotal ==
            FAdd(FAdd(FAdd(FAdd(FAdd(r.teg_cost, r.electronics_total), r.hx_total),
                           r.fluid_total), r.cooling_total), r.container_total)
        volume_discount == FMul(subtotal, volume_discount_pct)
        actual_kw == FDiv(FMul(FromInt(r.teg_count), teg.power_w), Lit(1000, 0))
    IN  [r EXCEPT !.subtotal = subtotal,
                  !.volume_discount = volume_discount,
                  !.estimated_total = FSub(subtotal, volume_discount),
                  !.cost_per_kw = IF IsPos(actual_kw)
                                  THEN FDiv(FSub(subtotal, volume_discount), actual_kw)
                                  ELSE Zero]

\* Lifecycle (20 years) and levelized cost at 90% uptime
Lifecycle(r, teg) ==
    LET replacements == IF FGe(teg.life_years, Lit(20, 0)) THEN 0
                        ELSE FCeil(FDiv(Lit(20, 0), teg.life_years)) - 1
        lifecycle_total == FAdd(r.estimated_total, FMul(FromInt(replacements), r.teg_cost))
        actual_kw == FDiv(FMul(FromInt(r.teg_count), teg.power_w), Lit(1000, 0))
        total_kwh_20yr == FMul(FMul(FMul(actual_kw, FromInt(8760)), Lit(9, -1)), Lit(20, 0))
    IN  [r EXCEPT !.teg_replacements_20yr = replacements,
                  !.lifecycle_teg_cost_20yr = FMul(r.teg_cost, FromInt(1 + replacements)),
                  !.lifecycle_total_20yr = lifecycle_total,
                  !.lifecycle_cost_per_kwh = IF IsPos(total_kwh_20yr)
                                             THEN FDiv(lifecycle_total, total_kwh_20yr)
                                             ELSE Zero]

\* calculate_system_cost(teg, target_kw, cooling, volume_discount_pct)
calculate_system_cost(teg, target_kw, cooling, volume_discount_pct) ==
    Lifecycle(
      Rollup(
        ContainerCost(
          CoolingCost(
            FluidCost(
              HxCost(
                ElectronicsCost(
                  Sizing([SystemCost EXCEPT !.teg_name = teg.name, !.target_kw = target_kw],
                         FCeil(FDiv(FMul(target_kw, Lit(1000, 0)), teg.power_w))),
                  teg,
                  IF teg.fluid_type = "water_glycol" THEN PCM_COST_BITE ELSE PCM_COST_PBTE),
                IF teg.hx_material = "copper" THEN HX_COPPER ELSE HX_STAINLESS),
              IF teg.fluid_type = "water_glycol" THEN FLUID_WATER_GLYCOL
              ELSE FLUID_THERMINOL,
              target_kw),
            teg, cooling),
          teg.hx_material = "stainless", target_kw),
        teg, volume_discount_pct),
      teg)

----------------------------------------------------------------------------
(* The arguments mcf_for_target is called with *)

\* target_kw: a TARGETS_KW entry (no count delivers it), a target that several
\* hundred modules deliver, and one low enough for every trial to meet
SearchTargets == {Lit(10, 0), Lit(4, -1), Lit(-20000000, 0)}

\* teg_type: catalog keys
SearchTegTypes == {"marlow", "thermonamic"}

\* (hot_temp, cold_temp): the default, and a thermal-oil scenario
SearchTemps == {<<Lit(200, 0), Lit(40, 0)>>, <<Lit(350, 0), Lit(100, 0)>>}

\* a call with the two temperatures exchanged: the solver's net output then
\* grows with the module count, and the search closes in from both sides
ExchangedTempsArgs ==
    [target_kw |-> Lit(10, 0), teg_type |-> "marlow", hot_temp |-> Lit(40, 0),
     cold_temp |-> Lit(200, 0)]

SearchArgs ==
    {[target_kw |-> t, teg_type |-> k, hot_temp |-> io[1], cold_temp |-> io[2]] :
        t \in SearchTargets, k \in SearchTegTypes, io \in SearchTemps}
    \cup {ExchangedTempsArgs}

----------------------------------------------------------------------------
(* State *)

VARIABLES
    backend,    \* what the import of CoolProp left (BackendStates)
    pc,         \* where the run_model call is: "idle", "props", "seed", "iter",
                \* "done" (returned r), "raised" (an exception left the call)
    cfg,        \* the SystemConfig passed
    r,          \* the ModelResults under construction
    L,          \* run_model's locals
    iter,       \* passes of the convergence loop completed
    raised,     \* the exception that left the call, or "none"
    rid,        \* identity of the ModelResults object r of this call (0: no call)
    held,       \* the result object the caller kept from an earlier call
    fn,         \* the library function being applied outside run_model
    s_pc,       \* where the mcf_for_target call is: "idle", "loop", "build",
                \* "done" (returned result), "raised"
    s_args,     \* mcf_for_target's arguments
    lo, hi,     \* the search interval
    step,       \* passes of `for _ in range(30)` completed
    best,       \* (best_cfg, best_result), or NoBest while both are None
    trials,     \* the (lo, hi, teg_count, net_electrical_kw) of each pass so far
    result      \* the McfResult returned

solverVars == <<pc, cfg, r, L, iter, raised, rid, held>>
searchVars == <<s_pc, s_args, lo, hi, step, best, trials, result>>
vars == <<backend, solverVars, searchVars, fn>>

DefaultConfig ==
    SystemConfig(DefaultCount, MARLOW_TG1_1008, "water_glycol", "water_glycol",
                 Lit(200, 0), Lit(40, 0), Lit(10, 0))

\* the caller holds no earlier result
NoHeld == [id |-> 0, cfg |-> DefaultConfig, r |-> ModelResults]

\* one result object shared by every call
FreshId_Shared(h) == IF h.id # 0 THEN h.id ELSE 1

\* `r = ModelResults()`: a new object, distinct from every object still alive
FreshId(h) == IF h.id = 1 THEN 2 ELSE 1

\* no library function is being applied
NoApply ==
    [name |-> "none", args |-> <<>>, at |-> "idle", f |-> Zero, f_new |-> Zero,
     k |-> 0, out |-> <<>>]

Init ==
    /\ backend \in BackendStates
    /\ pc = "idle"
    /\ cfg = DefaultConfig
    /\ r = ModelResults
    /\ L = NoLocals
    /\ iter = 0
    /\ raised = "none"
    /\ rid = 0
    /\ held = NoHeld
    /\ fn = NoApply
    /\ s_pc = "idle"
    /\ s_args = NoArgs
    /\ lo = SEARCH_LO
    /\ hi = SEARCH_HI
    /\ step = 0
    /\ best = NoBest
    /\ trials = <<>>
    /\ result = NoResult

\* run_model(c) is entered: r = ModelResults(), r.total_teg_count = cfg.teg_count
Call(c) ==
    /\ pc = "idle"
    /\ pc' = "props"
    /\ cfg' = c
    /\ r' = EnterStep(c)
    /\ L' = NoLocals
    /\ iter' = 0
    /\ raised' = "none"
    /\ rid' = FreshId(held)
    /\ UNCHANGED <<backend, held>>
    /\ UNCHANGED <<searchVars, fn>>

\* the property step, leaving the backend switched off for later calls
FluidProps_DropsBackend ==
    /\ pc = "props"
    /\ ~PropsRaises(backend, cfg)
    /\ \E p \in {PropsStep(backend, cfg, r)} : r' = p.r /\ L' = p.L
    /\ pc' = "seed"
    /\ backend' = "none"
    /\ UNCHANGED <<cfg, iter, raised, rid, held>>
    /\ UNCHANGED <<searchVars, fn>>

\* Fluid properties at bulk average temp
FluidProps ==
    /\ pc = "props"
    /\ ~PropsRaises(backend, cfg)
    /\ \E p \in {PropsStep(backend, cfg, r)} : r' = p.r /\ L' = p.L
    /\ pc' = "seed"
    /\ UNCHANGED <<backend, cfg, iter, raised, rid, held>>
    /\ UNCHANGED <<searchVars, fn>>

\* get_fluid_props raises ValueError, which leaves run_model
FluidPropsRaise ==
    /\ pc = "props"
    /\ PropsRaises(backend, cfg)
    /\ pc' = "raised"
    /\ raised' = "ValueError"
    /\ UNCHANGED <<backend, cfg, r, L, iter, rid, held>>
    /\ UNCHANGED <<searchVars, fn>>

\* the first pass, up to `Store resistances`
SeedPass ==
    /\ pc = "seed"
    /\ ~SeedRaises(cfg, L)
    /\ \E s \in {SeedStep(cfg, r, L)} : r' = s.r /\ L' = s.L
    /\ pc' = "iter"
    /\ UNCHANGED <<backend, cfg, iter, raised, rid, held>>
    /\ UNCHANGED <<searchVars, fn>>

\* a division of the first pass raises ZeroDivisionError
SeedPassRaise ==
    /\ pc = "seed"
    /\ SeedRaises(cfg, L)
    /\ pc' = "raised"
    /\ raised' = "ZeroDivisionError"
    /\ UNCHANGED <<backend, cfg, r, L, iter, rid, held>>
    /\ UNCHANGED <<searchVars, fn>>

\* one pass of the convergence loop
Iterate ==
    /\ pc = "iter"
    /\ iter < N_ITER
    /\ ~IterRaises(L)
    /\ \E s \in {IterStep(cfg, r, L)} : r' = s.r /\ L' = s.L
    /\ iter' = iter + 1
    /\ UNCHANGED <<backend, pc, cfg, raised, rid, held>>
    /\ UNCHANGED <<searchVars, fn>>

\* dt_total / r_total raises ZeroDivisionError inside the loop
IterateRaise ==
    /\ pc = "iter"
    /\ iter < N_ITER
    /\ IterRaises(L)
    /\ pc' = "raised"
    /\ raised' = "ZeroDivisionError"
    /\ UNCHANGED <<backend, cfg, r, L, iter, rid, held>>
    /\ UNCHANGED <<searchVars, fn>>

\* after the loop: final values to `return r`
Finalize ==
    /\ pc = "iter"
    /\ iter = N_ITER
    /\ r' = FinalStep(cfg, r, L)
    /\ pc' = "done"
    /\ UNCHANGED <<backend, cfg, L, iter, raised, rid, held>>
    /\ UNCHANGED <<searchVars, fn>>

\* the caller takes the result (or the exception); the next call may start
Return ==
    /\ pc \in {"done", "raised"}
    /\ pc' = "idle"
    /\ cfg' = DefaultConfig
    /\ r' = ModelResults
    /\ L' = NoLocals
    /\ iter' = 0
    /\ raised' = "none"
    /\ rid' = 0
    /\ UNCHANGED <<backend, held>>
    /\ UNCHANGED <<searchVars, fn>>

Next ==
    \/ \E c \in Configs : Call(c)
    \/ FluidProps
    \/ FluidPropsRaise
    \/ SeedPass
    \/ SeedPassRaise
    \/ Iterate
    \/ IterateRaise
    \/ Finalize
    \/ Return

Spec == Init /\ [][Next]_vars

----------------------------------------------------------------------------
(* a caller that keeps results across calls *)

\* configurations whose result the caller keeps: the default, and one whose
\* bulk temperatures the property backend covers
KeptConfigs ==
    {DefaultConfig,
     SystemConfig(BOARD, MARLOW_TG1_1008, "water_glycol", "water_glycol",
                  Lit(50, 0), Lit(40, 0), Lit(10, 0))}

\* the kept ones, and one call for each way run_model raises
CallConfigs ==
    KeptConfigs
    \cup {SystemConfig(0, MARLOW_TG1_1008, "water_glycol", "water_glycol",
                       Lit(200, 0), Lit(40, 0), Lit(10, 0)),
          SystemConfig(BOARD, ChainCancellingTEG, "water_glycol", "water_glycol",
                       Lit(200, 0), Lit(40, 0), Lit(10, 0)),
          SystemConfig(BOARD, MARLOW_TG1_1008, "steam", "water_glycol",
                       Lit(200, 0), Lit(40, 0), Lit(10, 0))}

\* `return r`, and the caller keeps the returned object with the config it passed
ReturnKeep ==
    /\ pc = "done"
    /\ cfg \in KeptConfigs
    /\ held' = [id |-> rid, cfg |-> cfg, r |-> r]
    /\ pc' = "idle"
    /\ cfg' = DefaultConfig
    /\ r' = ModelResults
    /\ L' = NoLocals
    /\ iter' = 0
    /\ raised' = "none"
    /\ rid' = 0
    /\ UNCHANGED backend
    /\ UNCHANGED <<searchVars, fn>>

NextCalls ==
    \/ \E c \in CallConfigs : Call(c)
    \/ FluidProps
    \/ FluidPropsRaise
    \/ SeedPass
    \/ SeedPassRaise
    \/ Iterate
    \/ IterateRaise
    \/ Finalize
    \/ Return
    \/ ReturnKeep

SpecCalls == Init /\ [][NextCalls]_vars

----------------------------------------------------------------------------
(* mcf_for_target's steps *)

\* mcf_for_target(target_kw, teg_type, hot_temp, cold_temp) is entered
SearchCall(a) ==
    /\ s_pc = "idle"
    /\ s_pc' = "loop"
    /\ s_args' = a
    /\ lo' = SEARCH_LO
    /\ hi' = SEARCH_HI
    /\ step' = 0
    /\ best' = NoBest
    /\ trials' = <<>>
    /\ result' = NoResult
    /\ UNCHANGED <<backend, fn, solverVars>>

\* a pass that keeps the first solve that met the target
TrialOutcome_KeepsFirst(mid, mid_rounded, m) ==
    IF m.raised # "none"
    THEN /\ s_pc' = "raised"
         /\ UNCHANGED <<lo, hi, step, best, trials>>
    ELSE /\ IF FLt(m.r.net_electrical_kw, s_args.target_kw)
            THEN lo' = mid + 1 /\ UNCHANGED <<hi, best>>
            ELSE /\ hi' = mid
                 /\ best' = IF best.found THEN best
                            ELSE [found |-> TRUE, teg_count |-> mid_rounded, r |-> m.r]
                 /\ UNCHANGED lo
         /\ step' = step + 1
         /\ trials' = Append(trials, [lo |-> lo, hi |-> hi, teg_count |-> mid_rounded,
                                      net_electrical_kw |-> m.r.net_electrical_kw])
         /\ UNCHANGED s_pc

\* the outcome of one pass, m the solve at mid_rounded: an exception of
\* run_model leaves mcf_for_target; else lo or hi moves
TrialOutcome(mid, mid_rounded, m) ==
    IF m.raised # "none"
    THEN /\ s_pc' = "raised"
         /\ UNCHANGED <<lo, hi, step, best, trials>>
    ELSE /\ IF FLt(m.r.net_electrical_kw, s_args.target_kw)
            THEN lo' = mid + 1 /\ UNCHANGED <<hi, best>>
            ELSE /\ hi' = mid
                 /\ best' = [found |-> TRUE, teg_count |-> mid_rounded, r |-> m.r]
                 /\ UNCHANGED lo
         /\ step' = step + 1
         /\ trials' = Append(trials, [lo |-> lo, hi |-> hi, teg_count |-> mid_rounded,
                                      net_electrical_kw |-> m.r.net_electrical_kw])
         /\ UNCHANGED s_pc

\* one pass of `for _ in range(30)`
SearchTrial ==
    /\ s_pc = "loop"
    /\ step < SEARCH_STEPS
    /\ \E m \in {run_model(backend, SearchConfig(s_args, MidRounded(Mid(lo, hi))))} :
           TrialOutcome(Mid(lo, hi), MidRounded(Mid(lo, hi)), m)
    /\ UNCHANGED <<backend, fn, solverVars, s_args, result>>

\* `if best_result is None`: Use upper bound
SearchFallback ==
    /\ s_pc = "loop"
    /\ step = SEARCH_STEPS
    /\ ~best.found
    /\ \E m \in {run_model(backend, SearchConfig(s_args, RoundToBoard(hi)))} :
           IF m.raised # "none"
           THEN s_pc' = "raised" /\ UNCHANGED best
           ELSE /\ best' = [found |-> FALSE, teg_count |-> RoundToBoard(hi), r |-> m.r]
                /\ s_pc' = "build"
    /\ UNCHANGED <<backend, fn, solverVars, s_args, lo, hi, step, trials, result>>

\* fuel input, the McfResult, cost at each gas price; `return result`
SearchBuild ==
    /\ \/ s_pc = "loop" /\ step = SEARCH_STEPS /\ best.found
       \/ s_pc = "build"
    /\ result' = McfResult(s_args, best.teg_count, best.r, DEFAULT_BURNER)
    /\ s_pc' = "done"
    /\ UNCHANGED <<backend, fn, solverVars, s_args, lo, hi, step, best, trials>>

\* the caller takes the result; the next call may start
SearchReturn ==
    /\ s_pc \in {"done", "raised"}
    /\ s_pc' = "idle"
    /\ s_args' = NoArgs
    /\ lo' = SEARCH_LO
    /\ hi' = SEARCH_HI
    /\ step' = 0
    /\ best' = NoBest
    /\ trials' = <<>>
    /\ result' = NoResult
    /\ UNCHANGED <<backend, fn, solverVars>>

NextSearch ==
    \/ \E a \in SearchArgs : SearchCall(a)
    \/ SearchTrial
    \/ SearchFallback
    \/ SearchBuild
    \/ SearchReturn

SpecSearch == Init /\ [][NextSearch]_vars

----------------------------------------------------------------------------
(* the library functions applied on their own *)

\* Reynolds numbers: below 1 and non-positive (as a zero or reversed heat
\* flow gives), laminar, at the laminar limit, transitional and turbulent
FrictionRe ==
    {Lit(-172, -1), Zero, Lit(5, -1), One, Lit(100, 0), Lit(22999, -1),
     Lit(2300, 0), Lit(4000, 0), Lit(1, 5), Lit(1, 7)}

\* smooth wall, the default roughness, commercial steel
FrictionRoughness == {Zero, DefaultRoughness, Lit(45, -6)}

\* the channel's hydraulic diameter and the pipe bore
FrictionDiameters == {hydraulic_diameter(HXGeometry), HXGeometry.manifold_id_m}

NusseltRe ==
    {Zero, Lit(100, 0), Lit(229999, -2), Lit(2300, 0), Lit(4000, 0),
     Lit(599999, -2), Lit(6000, 0), Lit(1, 4)}

\* the glycol fallback's Prandtl number, a gas and a cold oil
NusseltPr == {Lit(68, -1), Lit(7, -1), Lit(50, 0)}

PropsFluids == GlycolNames \cup OilNames \cup {"steam", ""}

PropsTemps == {Lit(-10, 0), Lit(45, 0), Lit(120, 0), Lit(225, 0), Lit(400, 0)}

ElectricalModules == CatalogTEGs \cup {ZeroResistanceTEG, NegativeResistanceTEG}

ElectricalDts == {Zero, Lit(1, -3), Lit(50, 0), Lit(1163, -1), Lit(-90, 0)}

\* target_kw: the default and larger systems, a milliwatt-scale target,
\* targets that whole boards of one option deliver exactly (36 x 6.16 W,
\* 36 x 13 W, 108 x 6.16 W, 108 x 13 W), targets just above those, and zero
CostTargets ==
    {Lit(10, 0), Lit(25, 0), Lit(100, 0), Lit(1, -3), Lit(22176, -5), Lit(468, -3),
     Lit(46801, -5), Lit(66528, -5), Lit(1404, -3), Lit(141, -2), Zero}

CostCoolings == {"dry", "ground"}

\* volume_discount_pct: the default, and none
CostDiscounts == {Lit(15, -2), Zero}

\* a function application that has returned
Applied(name, args, out) ==
    [name |-> name, args |-> args, at |-> "returned", f |-> Zero, f_new |-> Zero,
     k |-> 0, out |-> out]

\* friction_factor(re, roughness_m, d_h) is entered: the laminar branch returns
\* at once, otherwise eps_d and the seed f = 0.02 are set for the loop
FrictionCall(re, roughness_m, d_h) ==
    /\ fn.at = "idle"
    /\ fn' = IF FLt(re, Lit(2300, 0))
             THEN Applied("friction_factor", <<re, roughness_m, d_h>>, FrictionLaminar(re))
             ELSE [name |-> "friction_factor", args |-> <<re, roughness_m, d_h>>,
                   at |-> "loop", f |-> ColebrookSeed, f_new |-> Zero, k |-> 0,
                   out |-> <<>>]
    /\ UNCHANGED <<backend, solverVars, searchVars>>

\* one pass of `for _ in range(20)`: f_new is computed; break, or f = f_new
FrictionStep ==
    /\ fn.name = "friction_factor"
    /\ fn.at = "loop"
    /\ fn.k < ColebrookMaxIter
    /\ \E f_new \in {ColebrookNext(fn.args[1], FDiv(fn.args[2], fn.args[3]), fn.f)} :
          fn' = IF ColebrookConverged(fn.f, f_new)
                THEN [fn EXCEPT !.f_new = f_new, !.k = @ + 1, !.at = "exit"]
                ELSE [fn EXCEPT !.f_new = f_new, !.k = @ + 1, !.f = f_new]
    /\ UNCHANGED <<backend, solverVars, searchVars>>

\* `return f`, after the break or after the last pass
FrictionReturn ==
    /\ fn.name = "friction_factor"
    /\ \/ fn.at = "exit"
       \/ fn.at = "loop" /\ fn.k = ColebrookMaxIter
    /\ fn' = [fn EXCEPT !.at = "returned", !.out = fn.f]
    /\ UNCHANGED <<backend, solverVars, searchVars>>

NusseltApply(re, pr, heating) ==
    /\ fn.at = "idle"
    /\ fn' = Applied("nusselt_dittus_boelter", <<re, pr, heating>>,
                     nusselt_dittus_boelter(re, pr, heating))
    /\ UNCHANGED <<backend, solverVars, searchVars>>

PropsApply(fluid_type, temp_c) ==
    /\ fn.at = "idle"
    /\ fn' = Applied("get_fluid_props", <<fluid_type, temp_c>>,
                     get_fluid_props(backend, fluid_type, temp_c))
    /\ UNCHANGED <<backend, solverVars, searchVars>>

ElectricalApply(teg, dt_c) ==
    /\ fn.at = "idle"
    /\ fn' = Applied("electrical_output", <<teg, dt_c>>, electrical_output(teg, dt_c))
    /\ UNCHANGED <<backend, solverVars, searchVars>>

CostApply(teg, target_kw, cooling, volume_discount_pct) ==
    /\ fn.at = "idle"
    /\ fn' = Applied("calculate_system_cost",
                     <<teg, target_kw, cooling, volume_discount_pct>>,
                     calculate_system_cost(teg, target_kw, cooling, volume_discount_pct))
    /\ UNCHANGED <<backend, solverVars, searchVars>>

\* the caller takes the value; the next application may start
ApplyReturn ==
    /\ fn.at = "returned"
    /\ fn' = NoApply
    /\ UNCHANGED <<backend, solverVars, searchVars>>

NextFn ==
    \/ \E re \in FrictionRe, e \in FrictionRoughness, d \in FrictionDiameters :
          FrictionCall(re, e, d)
    \/ FrictionStep
    \/ FrictionReturn
    \/ \E re \in NusseltRe, p \in NusseltPr, h \in BOOLEAN : NusseltApply(re, p, h)
    \/ \E fl \in PropsFluids, tc \in PropsTemps : PropsApply(fl, tc)
    \/ \E tg \in ElectricalModules, dt \in ElectricalDts : ElectricalApply(tg, dt)
    \/ \E k \in DOMAIN TEG_OPTIONS, kw \in CostTargets, c \in CostCoolings,
          d \in CostDiscounts : CostApply(TEG_OPTIONS[k], kw, c, d)
    \/ ApplyReturn

SpecFn == Init /\ [][NextFn]_vars

----------------------------------------------------------------------------
(* Properties of run_model *)

\* run_model has returned: r is the ModelResults the caller receives
Returned == pc = "done"

\* |a - b| <= tol * |a|
Within(a, b, tol) == FLe(FAbs(FSub(a, b)), FMul(tol, FAbs(a)))

\* C1: in every ModelResults returned, net_electrical_w is gross_electrical_w
\* minus (pump_power_total_w + fan_power_w + electronics_w), and
\* pump_power_total_w is pump_power_hot_w + pump_power_cold_w
C1_NetIsGrossMinusParasitic ==
    Returned =>
        /\ r.net_electrical_w =
               FSub(r.gross_electrical_w,
                    FAdd(FAdd(r.pump_power_total_w, r.fan_power_w), r.electronics_w))
        /\ r.pump_power_total_w = FAdd(r.pump_power_hot_w, r.pump_power_cold_w)

\* a returned result with all three parasitic loads positive
C1_Witness ==
    /\ Returned
    /\ IsPos(r.pump_power_hot_w) /\ IsPos(r.pump_power_cold_w)
    /\ IsPos(r.fan_power_w) /\ IsPos(r.electronics_w)
    /\ IsPos(r.net_electrical_w)
    /\ FLt(r.net_electrical_w, r.gross_electrical_w)

\* C2: in every ModelResults returned, total_heat_input_w is gross_electrical_w
\* plus total_heat_rejection_w to within 1e-6 relative (both sides are rounded
\* floats), gross_electrical_w is power_per_teg_w times the module count and
\* total_heat_input_w is heat_per_teg_w times the module count
C2_FirstLawClosure ==
    Returned =>
        /\ Within(r.total_heat_input_w,
                  FAdd(r.gross_electrical_w, r.total_heat_rejection_w), Lit(1, -6))
        /\ r.gross_electrical_w = FMul(r.power_per_teg_w, FromInt(r.total_teg_count))
        /\ r.total_heat_input_w = FMul(r.heat_per_teg_w, FromInt(r.total_teg_count))

\* a returned result of a multi-module array that rejects less heat than it
\* takes in
C2_Witness ==
    /\ Returned
    /\ r.total_teg_count > 1
    /\ IsPos(r.gross_electrical_w)
    /\ IsPos(r.total_heat_rejection_w)
    /\ FLt(r.total_heat_rejection_w, r.total_heat_input_w)

\* C3: a call with teg_count = 0 ends with a NonPhysicalConfiguration error
\* and returns no ModelResults
C3_ZeroCountNonPhysical ==
    (cfg.teg_count = 0 /\ pc \in {"raised", "done"}) =>
        (pc = "raised" /\ raised = "NonPhysicalConfiguration")

\* C4: a call with a negative module count or a non-positive module thermal
\* resistance fails before the 10-step iteration begins and returns nothing
C4_FailsFast ==
    (cfg.teg_count < 0 \/ ~IsPos(cfg.teg_spec.r_thermal)) => pc \notin {"iter", "done"}

\* C5: for a hot or cold fluid identifier outside the glycol and thermal-oil
\* aliases, get_fluid_props raises the unknown-fluid ValueError and run_model
\* ends with it at the property lookup, having computed nothing
C5_UnknownFluidSurfaces ==
    (pc \notin {"idle", "props"}
     /\ \E f \in {cfg.hot_fluid, cfg.cold_fluid} :
            f \notin {"water_glycol", "glycol", "water", "therminol", "thermal_oil", "vp1"})
    => /\ pc = "raised"
       /\ raised = "ValueError"
       /\ r = EnterStep(cfg)
       /\ L = NoLocals

\* a call that ended with the unknown-fluid error
C5_Witness ==
    /\ pc = "raised"
    /\ raised = "ValueError"
    /\ cfg.hot_fluid = "steam"
    /\ cfg.teg_count > 0

\* the backend is unavailable for a lookup at temp_c: not installed, or the
\* lookup raises
Unavailable(temp_c) ==
    backend = "none" \/ backend = "failing" \/ ~PropsSIInRange(temp_c)

\* the fallback tuple: density 1040, specific heat 3400, viscosity 0.0008,
\* conductivity 0.40
IsFallbackTuple(props) ==
    /\ props.rho = Lit(1040, 0)
    /\ props.cp = Lit(3400, 0)
    /\ props.mu = Lit(8, -4)
    /\ props.k = Lit(40, -2)

\* C6: when the backend is unavailable, the glycol property set run_model
\* receives is exactly the fallback tuple, for the hot and for the cold side,
\* and the backend's failure never leaves the call
C6_FallbackWhenUnavailable ==
    /\ (pc \in {"seed", "iter", "done"} /\ cfg.hot_fluid \in GlycolNames
        /\ Unavailable(L.t_hot_avg)) => IsFallbackTuple(L.hot_props)
    /\ (pc \in {"seed", "iter", "done"} /\ cfg.cold_fluid \in GlycolNames
        /\ Unavailable(L.t_cold_avg)) => IsFallbackTuple(L.cold_props)
    /\ (pc = "raised" /\ cfg.hot_fluid \in GlycolNames /\ cfg.cold_fluid \in GlycolNames)
           => raised = "ZeroDivisionError"

\* a solve that ran on the fallback tuple because every lookup raised
C6_Witness ==
    /\ pc = "done"
    /\ backend = "failing"
    /\ cfg.hot_fluid = "water_glycol"
    /\ IsFallbackTuple(L.hot_props)
    /\ IsFallbackTuple(L.cold_props)

\* the configuration of the current call with another module count
WithCount(n) == [cfg EXCEPT !.teg_count = n]

\* C7: for fixed technology, fluids and temperatures, the gross output and the
\* total heat input returned for a positive module count are not smaller than
\* those returned for any smaller positive count
C7_MonotoneInCount ==
    (Returned /\ cfg.teg_count > 0) =>
        \A n1 \in {n \in PositiveCounts : n < cfg.teg_count} :
            /\ FLe(run_model(backend, WithCount(n1)).r.gross_electrical_w,
                   r.gross_electrical_w)
            /\ FLe(run_model(backend, WithCount(n1)).r.total_heat_input_w,
                   r.total_heat_input_w)

\* C8: in every ModelResults returned, teg_efficiency, heat_per_teg_w,
\* hot_reynolds and the six resistances are >= 0
C8_NonNegativeResults ==
    Returned =>
        /\ ~IsNeg(r.teg_efficiency)
        /\ ~IsNeg(r.heat_per_teg_w)
        /\ ~IsNeg(r.hot_reynolds)
        /\ \A x \in {r.r_hot_conv, r.r_hot_tim, r.r_teg, r.r_cold_tim, r.r_cold_conv,
                     r.r_total} : ~IsNeg(x)

----------------------------------------------------------------------------
(* Properties of mcf_for_target *)

\* the solver's net output (kW) at module count n for the search's arguments
NetKwAt(n) == run_model(backend, SearchConfig(s_args, n)).r.net_electrical_kw

\* C9: the module count mcf_for_target returns is a multiple of 36, the
\* solver's net output at that count is >= the target, and the net output at
\* the count 36 modules smaller is strictly below the target
C9_SmallestCountMeetingTarget ==
    s_pc = "done" =>
        /\ result.teg_count % BOARD = 0
        /\ FGe(NetKwAt(result.teg_count), s_args.target_kw)
        /\ result.teg_count > BOARD =>
               FLt(NetKwAt(result.teg_count - BOARD), s_args.target_kw)

\* every trial of the loop so far fell short of the target
NoTrialMet ==
    \A i \in DOMAIN trials : FLt(trials[i].net_electrical_kw, s_args.target_kw)

\* C10: when none of the 30 trials reaches the target, mcf_for_target raises
\* nothing and returns the solve at the multiple of 36 nearest the upper
\* bound, which the loop left at 50000; that solve's net output is below the
\* target
C10_FallbackAtUpperBound ==
    /\ s_pc # "raised"
    /\ (s_pc = "done" /\ NoTrialMet) =>
           /\ Len(trials) = SEARCH_STEPS
           /\ hi = SEARCH_HI
           /\ result.teg_count % BOARD = 0
           /\ 2 * Abs(result.teg_count - hi) <= BOARD
           /\ best.r.total_teg_count = result.teg_count
           /\ result.gross_electrical_kw = FDiv(best.r.gross_electrical_w, Lit(1000, 0))
           /\ FLt(best.r.net_electrical_kw, s_args.target_kw)

\* a search for 10 kW that returned after 30 trials, none of which met it
C10_Witness ==
    /\ s_pc = "done"
    /\ s_args.target_kw = Lit(10, 0)
    /\ Len(trials) = SEARCH_STEPS
    /\ NoTrialMet
    /\ result.teg_count >= BOARD


\* C11: while a call of run_model is in progress the configuration it was
\* given stays as passed, the result object it fills is a new one, distinct
\* from the object the caller still holds from an earlier call, and that
\* earlier object keeps its contents
C11_ConfigUntouchedFreshResult ==
    /\ [](pc # "idle" => rid # held.id)
    /\ [][pc # "idle" /\ pc' # "idle" => cfg' = cfg /\ held' = held]_vars

\* a second call has returned while the result of an earlier call is held
C11_Witness == pc = "done" /\ held.id # 0 /\ rid # 0 /\ cfg # held.cfg

\* C12: a call with the configuration of an earlier call returns a result
\* equal, field for field, to the one the earlier call returned, whatever
\* calls came between
C12_SameConfigSameResult ==
    pc = "done" /\ held.id # 0 /\ held.cfg = cfg => r = held.r

\* the same configuration solved again while its first result is held
C12_Witness ==
    pc = "done" /\ held.id # 0 /\ held.cfg = cfg /\ cfg # DefaultConfig /\ r = held.r

\* C13: every call of run_model whose fluids are recognised ends with a
\* result, and ends only after its heat-flux/resistance update has run exactly
\* N_ITER = 10 times
C13_TenUpdatesThenResult ==
    pc \in {"done", "raised"} /\ raised # "ValueError" => pc = "done" /\ iter = N_ITER

\* an application of friction_factor on its Colebrook-White branch (Re >= 2300)
InColebrook == fn.name = "friction_factor" /\ ~FLt(fn.args[1], Lit(2300, 0))

\* the loop starts from 0.02, has made at most 20 updates, is left early only
\* with two successive estimates less than 1e-8 apart, and what is returned
\* is the estimate held then: run_model's friction factor for these arguments
C14_LoopState ==
    InColebrook =>
        /\ fn.k \in 0..20
        /\ fn.at = "loop" /\ fn.k = 0 => fn.f = Lit(2, -2)
        /\ fn.at = "exit" => FLt(FAbs(FSub(fn.f_new, fn.f)), Lit(1, -8))
        /\ fn.at = "returned" =>
              /\ fn.out = fn.f
              /\ fn.k = 20 \/ FLt(FAbs(FSub(fn.f_new, fn.f)), Lit(1, -8))
              /\ fn.out = friction_factor(fn.args[1], fn.args[2], fn.args[3])

\* C14: for Re >= 2300 friction_factor starts from the seed 0.02, makes at
\* most 20 Colebrook-White updates, stops early only when two successive
\* estimates differ by less than 1e-8, and returns its estimate: every pass
\* of the loop counts towards the 20, and once the loop is left the only
\* step is the return of the estimate
C14_ColebrookBoundedReturns ==
    /\ []C14_LoopState
    /\ [][InColebrook /\ fn.at = "loop" => fn'.k = fn.k + 1 \/ fn'.at = "returned"]_vars
    /\ [][InColebrook /\ (fn.at = "exit" \/ (fn.at = "loop" /\ fn.k = 20)) =>
            fn'.at = "returned" /\ fn'.out = fn.f]_vars

\* a turbulent application that has returned after several updates
C14_Witness ==
    InColebrook /\ fn.at = "returned" /\ fn.k > 2 /\ FGt(fn.args[2], Zero)

\* an application of nusselt_dittus_boelter that has returned
NusseltApplied == fn.name = "nusselt_dittus_boelter" /\ fn.at = "returned"

\* C15: for every Pr and heating flag applied, the value returned at Re = 2300
\* is the transitional formula's and equals the laminar constant 3.66, and
\* the transitional formula at Re = 6000 agrees with the turbulent value
\* returned at Re = 6000 (to a relative 1e-6)
C15_ContinuousAtBoundaries ==
    NusseltApplied =>
        /\ fn.args[1] = Lit(2300, 0) =>
              /\ fn.out = NuTransitional(Lit(2300, 0), fn.args[2], NuExponent(fn.args[3]))
              /\ fn.out = Lit(366, -2)
        /\ fn.args[1] = Lit(6000, 0) =>
              /\ fn.out = NuTurbulent(Lit(6000, 0), fn.args[2], NuExponent(fn.args[3]))
              /\ Within(fn.out,
                        NuTransitional(Lit(6000, 0), fn.args[2], NuExponent(fn.args[3])),
                        Lit(1, -6))

\* the correlation applied at the upper boundary, well above the laminar value
C15_Witness ==
    NusseltApplied /\ fn.args[1] = Lit(6000, 0) /\ FGt(fn.out, Lit(10, 0))

\* an application in the transitional band 2300 <= Re < 6000
NusseltTransitional ==
    /\ NusseltApplied
    /\ FGe(fn.args[1], Lit(2300, 0))
    /\ FLt(fn.args[1], Lit(6000, 0))

\* (Re - 2300) / (6000 - 2300) of the application
BandFraction == FDiv(FSub(fn.args[1], Lit(2300, 0)), Lit(3700, 0))

NuWith(re, pr, n) ==
    IF FLt(re, Lit(2300, 0)) THEN Lit(366, -2)
    ELSE IF FLt(re, Lit(6000, 0)) THEN NuTransitional(re, pr, n)
    ELSE NuTurbulent(re, pr, n)

\* C17: after the seed pass and after every iteration of run_model, the hot
\* side's Nusselt number is the correlation with exponent 0.3 at the hot
\* side's Reynolds and Prandtl numbers, and the cold side's is the
\* correlation with exponent 0.4 at the cold side's
C17_HotCoolingColdHeating ==
    pc \in {"iter", "done"} =>
        /\ L.nu = NuWith(L.re, L.hot_props.pr, Lit(3, -1))
        /\ L.nu_cold = NuWith(L.re_cold, L.cold_props.pr, Lit(4, -1))

\* both sides out of the laminar regime, where the exponent shows, after the
\* last iteration
C17_Witness ==
    /\ pc = "iter" /\ iter = N_ITER
    /\ FGe(L.re, Lit(2300, 0)) /\ FGe(L.re_cold, Lit(2300, 0))
    /\ L.nu # NuWith(L.re, L.hot_props.pr, Lit(4, -1))
    /\ L.nu_cold # NuWith(L.re_cold, L.cold_props.pr, Lit(3, -1))

\* an application of get_fluid_props that returned a property set
PropsApplied ==
    fn.name = "get_fluid_props" /\ fn.at = "returned" /\ fn.out.raised = "none"

LaminarApplied ==
    /\ fn.name = "friction_factor"
    /\ fn.at = "returned"
    /\ FLt(fn.args[1], Lit(2300, 0))

ElectricalApplied == fn.name = "electrical_output" /\ fn.at = "returned"

\* C20: for a module with positive internal resistance, whatever the
\* temperature difference (zero, positive, negative) and the thermal
\* resistance (zero and negative included), electrical_output returns; the
\* efficiency returned is power / heat flow when the heat flow returned is
\* positive and exactly 0 otherwise, and the power returned is not negative
C20_GuardedEfficiency ==
    ElectricalApplied /\ IsPos(fn.args[1].internal_r_ohm) =>
        /\ fn.out.efficiency =
              IF IsPos(fn.out.heat_flux_w)
              THEN FDiv(fn.out.power_w, fn.out.heat_flux_w)
              ELSE Zero
        /\ ~IsNeg(fn.out.power_w)
        /\ IsPos(fn.args[1].r_thermal) =>
              fn.out.heat_flux_w = FDiv(fn.args[2], fn.args[1].r_thermal)
        /\ ~IsPos(fn.args[1].r_thermal) => fn.out.heat_flux_w = Zero

\* a module with zero thermal resistance under a temperature difference:
\* power without heat flow, efficiency 0
C20_Witness ==
    /\ ElectricalApplied
    /\ IsZero(fn.args[1].r_thermal)
    /\ IsPos(fn.out.power_w)
    /\ fn.out.efficiency = Zero

\* the seed pass has stored the resistances (and any number of iterations
\* have followed)
ResistancesStored == pc \in {"iter", "done"}

\* C21: after the seed pass and after each of the 10 iterations, r_total is
\* r_hot_conv + r_hot_tim + r_teg + r_cold_tim + r_cold_conv of the same
\* result, and no iteration (nor the final step) changes r_hot_tim, r_teg or
\* r_cold_tim
C21_ChainSumFixedStages ==
    /\ [](ResistancesStored =>
            r.r_total =
                FAdd(FAdd(FAdd(FAdd(r.r_hot_conv, r.r_hot_tim), r.r_teg), r.r_cold_tim),
                     r.r_cold_conv))
    /\ [][ResistancesStored /\ pc' \in {"iter", "done"} =>
            /\ r'.r_hot_tim = r.r_hot_tim
            /\ r'.r_teg = r.r_teg
            /\ r'.r_cold_tim = r.r_cold_tim]_vars

\* the last iteration done, with convective resistances that the iterations
\* moved away from the three fixed ones
C21_Witness ==
    /\ pc = "iter" /\ iter = N_ITER
    /\ IsPos(r.r_hot_tim) /\ IsPos(r.r_teg) /\ IsPos(r.r_cold_tim)
    /\ r.r_hot_conv # r.r_cold_conv

\* boards and nodes of a module count: one board per 36 modules and one node
\* per 3 boards, fractions dropped, at least one of each
BoardsOf(n) == IF n \div 36 > 1 THEN n \div 36 ELSE 1
NodesOf(n) == IF BoardsOf(n) \div 3 > 1 THEN BoardsOf(n) \div 3 ELSE 1

\* C22: in every ModelResults returned for a positive module count,
\* electronics_w is 1.5 W per board plus 3.0 W per node, with one board per
\* 36 modules and one node per 3 boards (whole boards and nodes only, at
\* least one of each)
C22_ElectronicsPerBoardAndNode ==
    Returned /\ cfg.teg_count > 0 =>
        r.electronics_w =
            FAdd(FMul(FromInt(BoardsOf(cfg.teg_count)), Lit(15, -1)),
                 FMul(FromInt(NodesOf(cfg.teg_count)), Lit(3, 0)))

\* five boards returned: 7.5 W of boards and a single node's 3 W
C22_Witness ==
    Returned /\ cfg.teg_count = 180 /\ r.electronics_w = Lit(105, -1)

\* C23: every ModelResults returned has parasitic_fraction equal to
\* (pump_power_total_w + fan_power_w + electronics_w) / gross_electrical_w when
\* its gross output is positive, and exactly 0 when its gross output is zero
C23_ParasiticFractionGuarded ==
    Returned =>
        /\ IsPos(r.gross_electrical_w) =>
              r.parasitic_fraction =
                  FDiv(FAdd(FAdd(r.pump_power_total_w, r.fan_power_w), r.electronics_w),
                       r.gross_electrical_w)
        /\ IsZero(r.gross_electrical_w) => r.parasitic_fraction = Zero

\* a result without gross output (inlets exactly the fluid rise apart) whose
\* electronics still draw power
C23_Witness ==
    /\ Returned
    /\ IsZero(r.gross_electrical_w)
    /\ IsPos(r.electronics_w)
    /\ r.parasitic_fraction = Zero

\* the count of a pass is a multiple of 36 nearest the midpoint of the
\* interval the pass started from, or 36 when that multiple would be 0
NearestBoardToMidpoint(t) ==
    /\ t.teg_count % 36 = 0
    /\ t.teg_count >= 36
    /\ \/ 2 * Abs(t.teg_count - (t.lo + t.hi) \div 2) <= 36
       \/ t.teg_count = 36 /\ 2 * ((t.lo + t.hi) \div 2) < 36

\* C24: mcf_for_target never leaves its loop by an exception, it has run
\* exactly 30 passes when it goes on to build its result, whatever the
\* outcomes of the passes, and the count every pass gave the solver is the
\* midpoint of the interval at that pass rounded to the nearest multiple of
\* 36, and at least 36
C24_ThirtyMidpointTrials ==
    /\ s_pc # "raised"
    /\ Len(trials) = step
    /\ step <= 30
    /\ s_pc \in {"build", "done"} => step = 30
    /\ \A i \in DOMAIN trials : NearestBoardToMidpoint(trials[i])

\* a search returned after 30 passes some of which met the target and some
\* not
C24_Witness ==
    /\ s_pc = "done"
    /\ Len(trials) = 30
    /\ \E i \in DOMAIN trials : FLt(trials[i].net_electrical_kw, s_args.target_kw)
    /\ \E i \in DOMAIN trials : FGe(trials[i].net_electrical_kw, s_args.target_kw)

\* C25: in every ModelResults returned, heat_per_teg_w * r_total equals
\* t_hot_fluid_avg_c - t_cold_fluid_avg_c, and t_cold_fin_surface_c -
\* heat_per_teg_w * r_cold_conv equals t_cold_fluid_avg_c (each to within a
\* relative 1e-6, ten times the arithmetic's resolution)
C25_ChainCloses ==
    Returned =>
        /\ Within(FSub(r.t_hot_fluid_avg_c, r.t_cold_fluid_avg_c),
                  FMul(r.heat_per_teg_w, r.r_total), Lit(1, -6))
        /\ Within(r.t_cold_fluid_avg_c,
                  FSub(r.t_cold_fin_surface_c, FMul(r.heat_per_teg_w, r.r_cold_conv)),
                  Lit(1, -6))

\* the per-module fields of a ModelResults: heat flux, TEG temperature
\* difference, power, efficiency, Reynolds number, the stage resistances and
\* their sum, and the temperature profile
PerModuleFields ==
    {"heat_per_teg_w", "dt_across_teg_c", "power_per_teg_w", "teg_efficiency",
     "hot_reynolds", "r_hot_conv", "r_hot_tim", "r_teg", "r_cold_tim", "r_cold_conv",
     "r_total", "t_hot_fluid_avg_c", "t_hot_fin_surface_c", "t_teg_hot_c",
     "t_teg_cold_c", "t_cold_fin_surface_c", "t_cold_fluid_avg_c"}

\* a call returned o, with the per-module fields of res (to within a relative 1e-6)
SamePerModule(res, o) ==
    /\ o.raised = "none"
    /\ \A f \in PerModuleFields : Within(res[f], o.r[f], Lit(1, -6))

\* C26: for fixed technology, geometry, fluids and temperatures, the
\* per-module fields of the result returned for a positive module count are
\* those returned for every other positive count, and total_teg_count is the
\* count asked for
C26_PerModuleIndependentOfCount ==
    (Returned /\ cfg.teg_count > 0) =>
        /\ r.total_teg_count = cfg.teg_count
        /\ \A n \in PositiveCounts : SamePerModule(r, run_model(backend, WithCount(n)))

\* a single module returned a positive per-module power with the channel flow
\* above Re = 2300, and larger arrays exist
C26_Witness ==
    /\ Returned
    /\ cfg.teg_count = 1
    /\ IsPos(r.power_per_teg_w)
    /\ FLt(Lit(2300, 0), r.hot_reynolds)
    /\ \E n \in PositiveCounts : n > cfg.teg_count

\* the module counts of the trials so far whose net output met the target
MetCounts ==
    {trials[i].teg_count :
        i \in {j \in DOMAIN trials : ~FLt(trials[j].net_electrical_kw, s_args.target_kw)}}

\* C27: during mcf_for_target's search lo never decreases and hi never
\* increases, and once a trial has met the target the configuration held (and
\* at the end returned) met the target and has the smallest module count of
\* all trials that met it
C27_BoundsCloseAndBestIsSmallestMet ==
    /\ []((s_pc \in {"loop", "build", "done"} /\ MetCounts # {}) =>
            /\ best.found
            /\ ~FLt(best.r.net_electrical_kw, s_args.target_kw)
            /\ best.r.total_teg_count = best.teg_count
            /\ best.teg_count \in MetCounts
            /\ \A c \in MetCounts : best.teg_count <= c
            /\ s_pc = "done" => result.teg_count = best.teg_count)
    /\ [][(s_pc # "idle" /\ s_pc' # "idle") => (lo' >= lo /\ hi' <= hi)]_vars

\* a search returned after trials that met the target at several counts and
\* trials that fell short, with both bounds moved
C27_Witness ==
    /\ s_pc = "done"
    /\ Cardinality(MetCounts) > 2
    /\ ~NoTrialMet
    /\ \E i \in DOMAIN trials : FLt(trials[i].net_electrical_kw, s_args.target_kw)
    /\ lo > SEARCH_LO
    /\ hi < SEARCH_HI

\* C28: the McfResult returned describes the selected solver run: its
\* net_electrical_kw is that run's net_electrical_w / 1000 and is
\* gross_electrical_kw - parasitic_kw of the same McfResult (each to within a
\* relative 1e-6), and its teg_count is the module count of that run
C28_McfResultDescribesRun ==
    s_pc = "done" =>
        /\ Within(FDiv(best.r.net_electrical_w, Lit(1000, 0)), result.net_electrical_kw,
                  Lit(1, -6))
        /\ Within(FSub(result.gross_electrical_kw, result.parasitic_kw),
                  result.net_electrical_kw, Lit(1, -6))
        /\ result.teg_count = best.r.total_teg_count

\* C29: every module count mcf_for_target passes to the solver, in a trial or
\* in the upper-bound fallback, and the module count it returns, is at most
\* 50000
C29_CountsWithinSearchRange ==
    /\ \A i \in DOMAIN trials : trials[i].teg_count <= SEARCH_HI
    /\ best.teg_count <= SEARCH_HI
    /\ s_pc = "done" => result.teg_count <= SEARCH_HI

----------------------------------------------------------------------------
(* Properties of calculate_system_cost *)

\* calculate_system_cost has returned a SystemCost for a positive target
CostApplied ==
    /\ fn.at = "returned"
    /\ fn.name = "calculate_system_cost"
    /\ IsPos(fn.args[2])

\* C30: for every TEG option and positive target power, the SystemCost
\* returned has teg_count = 36 * pcm_count, teg_count * power_w is at least
\* the target in watts, one board fewer would fall below it, node_count is
\* the least integer with 3 * node_count >= pcm_count, and estimated_total is
\* subtotal - volume_discount
C30_WholeBoardsJustEnough ==
    CostApplied =>
        /\ fn.out.teg_count = 36 * fn.out.pcm_count
        /\ FGe(FMul(FromInt(fn.out.teg_count), fn.args[1].power_w),
               FMul(fn.args[2], Lit(1000, 0)))
        /\ FLt(FMul(FromInt(fn.out.teg_count - 36), fn.args[1].power_w),
               FMul(fn.args[2], Lit(1000, 0)))
        /\ 3 * fn.out.node_count >= fn.out.pcm_count
        /\ 3 * (fn.out.node_count - 1) < fn.out.pcm_count
        /\ fn.out.estimated_total = FSub(fn.out.subtotal, fn.out.volume_discount)

\* a target just above what three boards deliver was sized at four boards on
\* two nodes, with a discount taken off the subtotal
C30_Witness ==
    /\ CostApplied
    /\ fn.args[1] = THERMONAMIC
    /\ fn.args[2] = Lit(141, -2)
    /\ fn.out.pcm_count = 4
    /\ fn.out.teg_count = 144
    /\ fn.out.node_count = 2
    /\ IsPos(fn.out.volume_discount)
    /\ FLt(fn.out.estimated_total, fn.out.subtotal)

============================================================================
